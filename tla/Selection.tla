----------------------------- MODULE Selection ------------------------------
(***************************************************************************)
(* What sampled_checksum decides before it draws a sample: the key, the    *)
(* columns to compare and whether the spread query can be used, from       *)
(* several queries while the two schemas change.  As in SchemaDrift the    *)
(* "rows" of Replication are columns and their values the types.           *)
(***************************************************************************)
EXTENDS Sessions, Types

CONSTANTS
    Spelling,   \* Spelling[type][engine]: the base type name reported for it
    Grants,     \* what the source's user may do: "select" or "all"
    OptionSets  \* key, columns (NONE for auto), ignore_columns, strategy

SelectionAssumption ==
    /\ \A type \in Vals : Engines \subseteq DOMAIN Spelling[type]
    /\ Grants \subseteq {"select", "all"}
    /\ \A o \in OptionSets : /\ o.key \in Keys \cup {"auto"}
                             /\ o.columns \in (SUBSET Keys) \cup {NONE}
    \* information_schema is read afresh by every query, in MySQL too
    /\ Pinned = {}

Strategies == {"recent", "spread", "mixed"}

VARIABLES
    engine,    \* engine[side]: the adapter
    grant,     \* of the source's user
    pk,        \* the columns of the source's primary key
    options,
    pc,        \* the next step
    key,       \* the key to sample by, NONE before it is known
    columns,   \* the columns to compare, or what is known of them
    fallback,  \* spread_fallback
    status     \* "none" while the check goes on

checkVars == <<view, engine, grant, pk, options, pc, key, columns, fallback, status>>
vars == <<replVars, touched, checkVars>>

schema(s) ==
    [c \in RowsOf(Current(s)) |-> Coarse(engine[s], Spelling[Current(s)[c]][engine[s]])]

MySQLOnly == IF engine["source"] = "mysql" THEN pk ELSE {}  \* mutant of VisibleKey
\* PostgreSQL's information_schema.table_constraints shows the constraints of a
\* table only to users who may do more with it than SELECT.
VisibleKey ==
    CASE engine["source"] = "mysql" -> pk
      [] engine["source"] = "postgres" -> IF grant = "select" THEN {} ELSE pk
      [] engine["source"] = "bigquery" -> {}

FirstColumn ==  \* mutant of primary_key
    IF VisibleKey = {} THEN NONE ELSE CHOOSE c \in VisibleKey : TRUE
primary_key ==
    IF Cardinality(VisibleKey) = 1 THEN CHOOSE c \in VisibleKey : TRUE ELSE NONE

Skip == pc' = "done" /\ status' = "ok"

ChooseKey ==
    /\ pc = "key"
    /\ key' = IF options.key = "auto" THEN primary_key ELSE options.key
    /\ IF key' = NONE THEN Skip
       ELSE /\ pc' = IF options.columns = NONE THEN "source" ELSE "columns"
            /\ UNCHANGED status
    /\ columns' = IF options.columns = NONE THEN columns ELSE options.columns
    /\ UNCHANGED fallback

SourceColumns ==
    /\ pc = "source"
    /\ columns' = DOMAIN schema("source") /\ pc' = "target"
    /\ UNCHANGED <<key, fallback, status>>

EitherSide ==  \* mutant of TargetColumns
    /\ pc = "target"
    /\ columns' = columns \cup DOMAIN schema("target") /\ pc' = "columns"
    /\ UNCHANGED <<key, fallback, status>>
TargetColumns ==
    /\ pc = "target"
    /\ columns' = columns \cap DOMAIN schema("target") /\ pc' = "columns"
    /\ UNCHANGED <<key, fallback, status>>

KeepsKey ==  \* mutant of Considers
    /\ pc = "columns"
    /\ columns' = columns \ options.ignore_columns
    /\ IF columns' = {} THEN Skip
       ELSE IF options.strategy \notin Strategies
       THEN pc' = "done" /\ status' = "error"
       ELSE pc' = "type" /\ UNCHANGED status
    /\ UNCHANGED <<key, fallback>>
\* Without the key and the columns to ignore; then the strategy is looked at.
Considers ==
    /\ pc = "columns"
    /\ columns' = columns \ (options.ignore_columns \cup {key})
    /\ IF columns' = {} THEN Skip
       ELSE IF options.strategy \notin Strategies
       THEN pc' = "done" /\ status' = "error"
       ELSE pc' = "type" /\ UNCHANGED status
    /\ UNCHANGED <<key, fallback>>

NotText(t) == t # "string"  \* mutant of SpreadOK
SpreadOK(t) == t = "integer"

\* schema(source).get(key): a key that is no column has no type.
KeyType ==
    /\ pc = "type"
    /\ fallback' = /\ options.strategy # "recent"
                   /\ ~(key \in DOMAIN schema("source") /\ SpreadOK(schema("source")[key]))
    /\ pc' = "draw"
    /\ UNCHANGED <<key, columns, status>>

Check == ChooseKey \/ SourceColumns \/ TargetColumns \/ Considers \/ KeyType

Init ==
    /\ SessionsInit /\ engine \in [Sides -> Engines] /\ grant \in Grants
    /\ pk \in SUBSET RowsOf(src) /\ options \in OptionSets
    /\ pc = "key" /\ key = NONE /\ columns = {} /\ fallback = FALSE /\ status = "none"

Next == \/ Check /\ UNCHANGED <<replVars, touched, view, engine, grant, pk, options>>
        \/ /\ Replicate /\ Noted /\ pc \notin {"draw", "done"}
           /\ UNCHANGED checkVars

Spec == Init /\ [][Next]_vars

-----------------------------------------------------------------------------
TypeOK ==
    /\ SessionsTypeOK /\ engine \in [Sides -> Engines]
    /\ pk \subseteq Keys /\ options \in OptionSets
    /\ pc \in {"key", "source", "target", "columns", "type", "draw", "done"}
    /\ pc = "done" <=> status # "none"
    /\ key \in Keys \cup {NONE} /\ columns \subseteq Keys /\ fallback \in BOOLEAN
    /\ pc = "draw" => columns # {} /\ key \in Keys \ columns

\* "to use the source's primary key": a MySQL or PostgreSQL table that has a
\* single-column primary key is sampled by it; the check does not quietly skip
\* the table for want of a key and stay green.
PrimaryKeyIsUsed ==
    /\ pc \in {"draw", "done"} /\ options.key = "auto"
    /\ engine["source"] # "bigquery" /\ Cardinality(pk) = 1
    => key \in pk

\* "auto for every column on both sides": although the two schemas are read at
\* different moments, every column that was there on both sides all along is
\* compared, unless it is to be ignored or is the key, and none is compared
\* that one side lacked all along.
SharedColumnsCompared ==
    pc = "draw" /\ options.columns = NONE =>
        \A c \in Keys \ (touched \cup options.ignore_columns \cup {key}) :
            c \in columns <=> c \in RowsOf(src) \cap RowsOf(tgt)

\* "Numeric keys only (falls back to recent otherwise)", over a table whose
\* other columns change: MOD is asked of no key that is not an integer, and of
\* a composite key never.
SpreadOnlyOnIntegers ==
    pc = "draw" /\ options.strategy # "recent" /\ ~fallback /\ key \notin touched =>
        /\ key \in RowsOf(src)
        /\ Coarse(engine["source"], Spelling[src[key]][engine["source"]]) = "integer"
        /\ options.key = "auto" => pk = {key}
=============================================================================
