------------------------------- MODULE Types --------------------------------
(***************************************************************************)
(* The coarse type vocabulary of adapters/base.py: what each adapter's     *)
(* schema() makes of the base type names its engine reports.               *)
(***************************************************************************)
EXTENDS Integers

COARSE_TYPES == {"integer", "float", "decimal", "string", "bool", "timestamp",
                 "date", "json", "binary", "other"}

Engines == {"mysql", "postgres", "bigquery"}

_MYSQL == [
    integer   |-> {"tinyint", "smallint", "mediumint", "int", "bigint"},
    float     |-> {"float", "double", "real"},
    decimal   |-> {"decimal", "numeric"},
    string    |-> {"char", "varchar", "text", "tinytext", "mediumtext",
                   "longtext", "enum"},
    bool      |-> {"bool", "boolean"},
    timestamp |-> {"datetime", "timestamp"},
    date      |-> {"date"},
    json      |-> {"json"},
    binary    |-> {"binary", "varbinary", "blob"}]

_POSTGRES == [
    integer   |-> {"smallint", "integer", "bigint", "smallserial", "serial",
                   "bigserial"},
    float     |-> {"real", "double precision"},
    decimal   |-> {"numeric", "money"},
    string    |-> {"character varying", "character", "text", "uuid"},
    bool      |-> {"boolean"},
    timestamp |-> {"timestamp without time zone", "timestamp with time zone"},
    date      |-> {"date"},
    json      |-> {"json", "jsonb"},
    binary    |-> {"bytea"}]

_BIGQUERY == [
    integer   |-> {"INT64", "INTEGER"},
    float     |-> {"FLOAT64", "FLOAT"},
    decimal   |-> {"NUMERIC", "BIGNUMERIC"},
    string    |-> {"STRING"},
    bool      |-> {"BOOL", "BOOLEAN"},
    timestamp |-> {"TIMESTAMP", "DATETIME"},
    date      |-> {"DATE"},
    json      |-> {"JSON"},
    binary    |-> {"BYTES"}]

_COARSE == [mysql |-> _MYSQL, postgres |-> _POSTGRES, bigquery |-> _BIGQUERY]

\* _COARSE.get(data_type, "other")
Coarse(engine, native) ==
    LET hits == {c \in DOMAIN _COARSE[engine] : native \in _COARSE[engine][c]}
    IN  IF hits = {} THEN "other" ELSE CHOOSE c \in hits : TRUE

=============================================================================
