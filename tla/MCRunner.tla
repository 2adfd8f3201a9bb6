------------------------------ MODULE MCRunner ------------------------------
(* Small instances of Runner: a schema pair whose two tables are renamed to  *)
(* each other at the target, and a table pair.                               *)
EXTENDS Runner, TLC

CONSTANTS shop, pay, t1, t2

MCSchemaPairs == {shop}
MCCheckNames  == {"row_delta", "freshness", "schema_drift", "sampled_checksum", "typo"}
MCWanted      == shop :> Tables
MCTarget      == shop :> (t1 :> t2 @@ t2 :> t1)
MCNaming      == shop :> {"freshness"} @@ pay :> {"freshness"}

PerTable(f) == [t \in Tables \cup {NONE} |-> IF t \in DOMAIN f THEN f[t] ELSE {}]

\* At the target t1 lacks a column; times of t2 come back aware from one side
\* and naive from the other, or the options of t2 cannot be merged; the
\* tolerance of pay is not a number.
LateColumn == shop :> {t1} @@ pay :> {}
NoBadRule  == shop :> {}
OneBadRule == shop :> {t2}
MCRaising  == shop :> PerTable(t2 :> {"freshness"})
              @@ pay :> PerTable(NONE :> {"row_delta"})

\* For the report: t1 alone may be all green.
ReportChecks == shop :> PerTable(t1 :> {"sampled_checksum"} @@ t2 :> {"freshness"})
                @@ pay :> PerTable(NONE :> {"row_delta"})

\* For errors: several checks of one table over one pair of sessions, and one
\* that is not registered.
ErrorChecks == shop :> PerTable(t1 :> {"freshness", "schema_drift"}
                                @@ t2 :> {"freshness", "typo"})
               @@ pay :> PerTable(NONE :> {"row_delta"})

Between(a, b) == "source" :> a @@ "target" :> b

\* PostgreSQL as a source only: no check names a column it lacks.
PostgresSource == shop :> Between("postgres", "mysql") @@ pay :> Between("mysql", "bigquery")

\* PostgreSQL on either side.
WithPostgres == shop :> Between("mysql", "postgres") @@ pay :> Between("postgres", "bigquery")
=============================================================================
