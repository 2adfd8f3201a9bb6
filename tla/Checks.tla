------------------------------- MODULE Checks -------------------------------
(***************************************************************************)
(* The checks that look at one table, side by side: a behaviour evaluates  *)
(* one of them.  They share the tables, the pipe and the sessions; each    *)
(* brings the rows that matter to it.  sampled_checksum takes part twice:  *)
(* up to its draw, and with the comparison of one cell of the rows it      *)
(* fetched, which needs no table.                                          *)
(***************************************************************************)
EXTENDS Integers, FiniteSets, Sequences

CONSTANTS
    Checked,           \* the checks to explore
    Rows, MaxWrites,   \* Keys and MaxWrites of each check
    Absent, NONE,
    Pinned,            \* of the pair's sessions
    MaxTime, MaxLag, WarnLag, Column, Candidates, Engine, Stamped,  \* Freshness
    RowContents, Matching, Tolerance,                               \* RowDelta
    Columns, MaxDiff,                                               \* NullRate
    Types, Spelling, Ignored,           \* SchemaDrift, and Selection too
    Grants, OptionSets,                                             \* Selection
    Null, NaN, Word, Naive, Nums, One, Times, Zone, AbsTol, RelDen,
    Pairings                                                        \* Values

VARIABLES
    which,                                        \* the check evaluated
    src, tgt, pipe, writes, view, touched,        \* Sessions
    pc, status,
    native, now, source_max, whole, applied,                      \* Freshness
    src_n, churn,                                                  \* RowDelta
    columns, todo, reading, share, offenders, hadNull,             \* NullRate
    engine, src_schema, missing_in_target, extra_in_target, type_changed, differed,
    grant, pk, options, key, fallback,                             \* Selection
    column, cell, verdict                                          \* Values

freshnessVars == <<native, now, source_max, whole, applied>>
rowDeltaVars  == <<src_n, churn>>
nullRateVars  == <<todo, reading, share, offenders, hadNull>>
driftVars     == <<src_schema, missing_in_target, extra_in_target, type_changed,
                   differed>>
selectionVars == <<grant, pk, options, key, fallback>>
valuesVars    == <<column, cell, verdict>>
tableVars     == <<src, tgt, pipe, writes, view, touched>>

vars == <<which, tableVars, pc, status, freshnessVars, rowDeltaVars, nullRateVars,
          driftVars, selectionVars, valuesVars, columns, engine>>

\* The variables of the checks that are not evaluated.
NoFreshness ==
    /\ native = NONE /\ now = NONE /\ source_max = NONE
    /\ whole = NONE /\ applied = NONE
NoRowDelta == src_n = NONE /\ churn = NONE
NoNullRate ==
    /\ todo = NONE /\ reading = NONE /\ share = NONE
    /\ offenders = NONE /\ hadNull = NONE
NoDrift ==
    /\ src_schema = NONE /\ missing_in_target = NONE
    /\ extra_in_target = NONE /\ type_changed = NONE /\ differed = NONE
NoSelection ==
    /\ grant = NONE /\ pk = NONE /\ options = NONE /\ key = NONE /\ fallback = NONE
NoValues == column = NONE /\ cell = NONE /\ verdict = NONE
NoTable ==
    /\ src = NONE /\ tgt = NONE /\ pipe = NONE /\ writes = NONE
    /\ view = NONE /\ touched = NONE /\ pc = NONE /\ status = NONE

-----------------------------------------------------------------------------
\* Rows are read from the sessions' snapshots, schemas afresh by every query.

Fresh == INSTANCE Freshness WITH
    Keys <- Rows["freshness"], MaxWrites <- MaxWrites["freshness"],
    Vals <- 0 .. MaxTime, Schemas <- Stamped

Delta == INSTANCE RowDelta WITH
    Keys <- Rows["row_delta"], MaxWrites <- MaxWrites["row_delta"], Vals <- RowContents

\* enumerated, so that TLC can compare Absent with its elements
NullSets == {nulls : nulls \in SUBSET Columns}

Nulls == INSTANCE NullRate WITH
    Keys <- Rows["null_rate"], MaxWrites <- MaxWrites["null_rate"], Vals <- NullSets

Drift == INSTANCE SchemaDrift WITH
    Keys <- Rows["schema_drift"], MaxWrites <- MaxWrites["schema_drift"],
    Vals <- Types, Pinned <- {}

Select == INSTANCE Selection WITH
    Keys <- Rows["sampled_checksum"], MaxWrites <- MaxWrites["sampled_checksum"],
    Vals <- Types, Pinned <- {}

Cells == INSTANCE Values

ASSUME FreshAssumption ==
    /\ Fresh!ReplicationAssumption /\ Fresh!SessionsAssumption
    /\ Fresh!FreshnessAssumption
ASSUME DeltaAssumption ==
    /\ Delta!ReplicationAssumption /\ Delta!SessionsAssumption
    /\ Delta!RowDeltaAssumption
ASSUME NullsAssumption ==
    /\ Nulls!ReplicationAssumption /\ Nulls!SessionsAssumption
    /\ Nulls!NullRateAssumption
ASSUME DriftAssumption ==
    /\ Drift!ReplicationAssumption /\ Drift!SessionsAssumption
    /\ Drift!SchemaDriftAssumption
ASSUME SelectAssumption ==
    /\ Select!ReplicationAssumption /\ Select!SessionsAssumption
    /\ Select!SelectionAssumption
ASSUME CellsAssumption == Cells!ValuesAssumption

-----------------------------------------------------------------------------
Init ==
    /\ which \in Checked
    /\ \/ /\ which = "freshness" /\ Fresh!Init
          /\ NoRowDelta /\ NoNullRate /\ NoDrift /\ NoSelection /\ NoValues
          /\ columns = NONE /\ engine = NONE
       \/ /\ which = "row_delta" /\ Delta!Init
          /\ NoFreshness /\ NoNullRate /\ NoDrift /\ NoSelection /\ NoValues
          /\ columns = NONE /\ engine = NONE
       \/ /\ which = "null_rate" /\ Nulls!Init
          /\ NoFreshness /\ NoRowDelta /\ NoDrift /\ NoSelection /\ NoValues
          /\ pc = NONE /\ engine = NONE
       \/ /\ which = "schema_drift" /\ Drift!Init
          /\ NoFreshness /\ NoRowDelta /\ NoNullRate /\ NoSelection /\ NoValues
          /\ columns = NONE
       \/ /\ which = "sampled_checksum" /\ Select!Init
          /\ NoFreshness /\ NoRowDelta /\ NoNullRate /\ NoDrift /\ NoValues
       \/ /\ which = "cell" /\ Cells!Init
          /\ NoTable /\ NoFreshness /\ NoRowDelta /\ NoNullRate /\ NoDrift
          /\ NoSelection /\ columns = NONE /\ engine = NONE

Next ==
    \/ /\ which = "freshness" /\ Fresh!Next
       /\ UNCHANGED <<which, rowDeltaVars, nullRateVars, driftVars, selectionVars,
                      valuesVars, columns, engine>>
    \/ /\ which = "row_delta" /\ Delta!Next
       /\ UNCHANGED <<which, freshnessVars, nullRateVars, driftVars, selectionVars,
                      valuesVars, columns, engine>>
    \/ /\ which = "null_rate" /\ Nulls!Next
       /\ UNCHANGED <<which, freshnessVars, rowDeltaVars, driftVars, selectionVars,
                      valuesVars, pc, engine>>
    \/ /\ which = "schema_drift" /\ Drift!Next
       /\ UNCHANGED <<which, freshnessVars, rowDeltaVars, nullRateVars,
                      selectionVars, valuesVars, columns>>
    \/ /\ which = "sampled_checksum" /\ Select!Next
       /\ UNCHANGED <<which, freshnessVars, rowDeltaVars, nullRateVars, driftVars,
                      valuesVars>>
    \/ /\ which = "cell" /\ Cells!Next
       /\ UNCHANGED <<which, tableVars, pc, status, freshnessVars, rowDeltaVars,
                      nullRateVars, driftVars, selectionVars, columns, engine>>

Spec == Init /\ [][Next]_vars

-----------------------------------------------------------------------------
\* Every variable of the check that runs stays within what its code can store.
TypeOK ==
    /\ which = "freshness"        => Fresh!TypeOK
    /\ which = "row_delta"        => Delta!TypeOK
    /\ which = "null_rate"        => Nulls!TypeOK
    /\ which = "schema_drift"     => Drift!TypeOK
    /\ which = "sampled_checksum" => Select!TypeOK
    /\ which = "cell"             => Cells!TypeOK

\* freshness: a replica that lost nothing is blamed for a reason.
AlarmHasACause == which = "freshness" => Fresh!AlarmHasACause

\* freshness: a row newer than the pipe's last delivery by more than the limit
\* makes the check fail.
DeadConnectorIsNoticed == which = "freshness" => Fresh!DeadConnectorIsNoticed

\* row_delta: the verdict is off by no more than the rows that moved meanwhile.
RowDeltaIsHonest == which = "row_delta" => Delta!RowDeltaIsHonest

\* null_rate: NULLs the source never had make the check fail.
NullCorruptionIsNoticed == which = "null_rate" => Nulls!NullCorruptionIsNoticed

\* null_rate: a column is blamed for a difference of its own.
NullAlarmHasACause == which = "null_rate" => Nulls!NullAlarmHasACause

\* schema_drift: a column the target lacks is a FAIL, whatever else drifts.
LateColumnIsFail == which = "schema_drift" => Drift!LateColumnIsFail

\* schema_drift: a migrated column is a FAIL, whatever else drifts.
MigrationIsFail == which = "schema_drift" => Drift!MigrationIsFail

\* schema_drift: a column it names did differ at some moment.
DriftAlarmHasACause == which = "schema_drift" => Drift!DriftAlarmHasACause

\* schema_drift: a column both sides have is not reported.
NoDialectNoise == which = "schema_drift" => Drift!NoDialectNoise

\* sampled_checksum: a primary key that exists is found and used.
PrimaryKeyIsUsed == which = "sampled_checksum" => Select!PrimaryKeyIsUsed

\* sampled_checksum: the columns compared are those both sides had throughout.
SharedColumnsCompared == which = "sampled_checksum" => Select!SharedColumnsCompared

\* sampled_checksum: MOD is asked of integer keys only.
SpreadOnlyOnIntegers == which = "sampled_checksum" => Select!SpreadOnlyOnIntegers

\* sampled_checksum: a faithful copy of a cell is taken for the same.
FaithfulCopyIsSame == which = "cell" => Cells!FaithfulCopyIsSame

\* sampled_checksum: a cell that changed on its way is taken for different.
DriftIsSeen == which = "cell" => Cells!DriftIsSeen

\* sampled_checksum: it does not matter which side is the source.
Symmetric == which = "cell" => Cells!Symmetric
=============================================================================
