------------------------------ MODULE MCChecks ------------------------------
(* Small instances of the checks that look at one table. *)
EXTENDS Checks, TLC

CONSTANTS
    k1, k2,            \* rows, for freshness and null_rate
    r1, r2, r3,        \* rows, for row_delta
    settled, recent,   \* outside and inside its `where` window
    c1, c2, _synced,   \* columns, for null_rate and schema_drift
    id, amount         \* columns, for the selection of sampled_checksum

MCRows ==
    [freshness |-> {k1, k2}, row_delta |-> {r1, r2, r3}, null_rate |-> {k1, k2},
     schema_drift |-> {c1, c2, _synced}, sampled_checksum |-> {id, amount}]

MCMaxWrites ==
    [freshness |-> 2, row_delta |-> 2, null_rate |-> 1, schema_drift |-> 1,
     sampled_checksum |-> 1]

\* From MySQL, whose session is pinned, to BigQuery.  The first candidate is
\* no time stamp at the source; the second is, or there is none.
MCEngine == [source |-> "mysql", target |-> "bigquery"]
MCCandidates == <<"updated_at", "created_at">>
Declared(type) == [updated_at |-> "text", created_at |-> type]
MCStamped ==
    {[source |-> Declared("datetime"), target |-> Declared("TIMESTAMP")],
     [source |-> Declared("text"), target |-> Declared("TIMESTAMP")]}

\* Types all three adapters agree about; a price is no integer.
MCSpelling == [
    number |-> [mysql |-> "bigint",   postgres |-> "bigint",  bigquery |-> "INT64"],
    price  |-> [mysql |-> "decimal",  postgres |-> "numeric", bigquery |-> "NUMERIC"]]

\* ... and BOOLEAN, which MySQL declares as tinyint(1).
MCDialects == [
    number |-> MCSpelling.number,
    truth  |-> [mysql |-> "tinyint", postgres |-> "boolean", bigquery |-> "BOOL"]]

Opt(k, cols, ignored, strategy) ==
    [key |-> k, columns |-> cols, ignore_columns |-> ignored, strategy |-> strategy]
MCOptionSets ==
    {Opt("auto", NONE, {}, "mixed"), Opt("auto", NONE, {amount}, "spread"),
     Opt("auto", {id, amount}, {}, "mixed"), Opt(id, NONE, {}, "mixed"),
     Opt(id, NONE, {}, "recent"), Opt("auto", NONE, {}, "newest")}

Col(e, types) == [engine : {e}, native : types]

\* Two columns that hold the same without being declared the same.
Plain ==
    Col("mysql", {"bigint", "tinyint", "decimal", "double", "varchar", "datetime",
                  "timestamp", "date", "blob"})
    \cup Col("postgres", {"integer", "numeric", "double precision", "text", "boolean",
                          "timestamp with time zone", "timestamp without time zone",
                          "date", "bytea", "jsonb"})
    \cup Col("bigquery", {"INT64", "NUMERIC", "FLOAT64", "STRING", "BOOL", "TIMESTAMP",
                          "DATETIME", "DATE", "BYTES", "JSON"})

T == INSTANCE Types
CoarseOf(p) == {T!Coarse(col.engine, col.native) : col \in {p.source, p.target}}

\* A float is not compared with a text or bytes: float() reads those as numbers.
PlainPairs ==
    {p \in [source : Plain, target : Plain] :
        "float" \in CoarseOf(p) => CoarseOf(p) \cap {"string", "binary"} = {}}

\* Whole hours east of UTC; MySQL's sessions in UTC, PostgreSQL's not.
Offsets == [mysql |-> 0, postgres |-> 2, bigquery |-> 0]

Symmetry ==
    Permutations({k1, k2}) \cup Permutations({r1, r2, r3}) \cup Permutations({c1, c2})
=============================================================================
