------------------------------- MODULE Runner -------------------------------
(***************************************************************************)
(* One run of `cdcanary check` (`scan` is the same run without a webhook): *)
(* cli.check, runner.run, run_pair, _run_schema_pair and _run_checks,      *)
(* statement by statement, with what the databases and the drivers may do  *)
(* to it.  The program is one thread; what is concurrent with it -- tables *)
(* created and dropped, sessions lost, statements rejected, a scheduler    *)
(* that kills the process -- is a nondeterministic choice at the step that *)
(* meets it.  What a check computes is another module's subject: here a    *)
(* check that gets its answers returns any verdict its code can return,    *)
(* and one whose options or data do not fit its code may raise instead.    *)
(*                                                                         *)
(* The loops over pairs, tables and checks follow list and dict order in   *)
(* the code; here they take their elements in any order.                   *)
(***************************************************************************)
EXTENDS Status

CONSTANTS
    Pairs,        \* config.pairs
    SchemaPairs,  \* the pairs that discover their tables
    Tables,       \* table names, at the source and at the target
    CheckNames,   \* the check names the configuration uses
    Engine,       \* Engine[p][side]: the adapter type of that connection
    Wanted,       \* Wanted[p]: the tables the pair's patterns select
    Target,       \* Target[p][t]: target_table_for(t)
    Checks,       \* Checks[p][t]: checks_for(t); Checks[p][NONE]: pair.checks
    BadRule,      \* BadRule[p]: the tables for which checks_for raises
    Raising,      \* Raising[p][t]: checks of p (of its table t) that may raise of
                  \* themselves: options that do not convert, an unknown
                  \* strategy, an aware and a naive time to subtract
    Lacking,      \* Lacking[p]: tables whose target lacks a source column ...
    Naming,       \* Naming[p]: ... and the checks whose queries name it
    NONE          \* no pair; no table: the results of a pair as a whole

Sides == {"source", "target"}

Engines == {"mysql", "postgres", "bigquery"}

\* The registry of _register_builtins, and what each check can conclude once it
\* has its answers; CheckRaises is what it does when it cannot conclude.
Verdicts == [row_delta        |-> {"ok", "fail"},
             freshness        |-> {"ok", "warn", "fail"},
             null_rate        |-> {"ok", "fail"},
             schema_drift     |-> {"ok", "warn", "fail"},
             sampled_checksum |-> {"ok", "fail"}]

Registered == DOMAIN Verdicts

ASSUME RunnerAssumption ==
    /\ SchemaPairs \subseteq Pairs
    /\ NONE \notin Pairs \cup Tables
    /\ CheckNames \cap {"table_presence", "connection"} = {}
    /\ Engine \in [Pairs -> [Sides -> Engines]]
    /\ Wanted \in [SchemaPairs -> SUBSET Tables]
    /\ Target \in [SchemaPairs -> [Tables -> Tables]]
    /\ Checks \in [Pairs -> [Tables \cup {NONE} -> SUBSET CheckNames]]
    /\ BadRule \in [SchemaPairs -> SUBSET Tables]
    /\ Raising \in [Pairs -> [Tables \cup {NONE} -> SUBSET Registered]]
    /\ Lacking \in [Pairs -> SUBSET (Tables \cup {NONE})]
    /\ Naming \in [Pairs -> SUBSET (Registered \ {"schema_drift"})]
    \* config._parse_pair refuses a table pair without checks
    /\ \A p \in Pairs \ SchemaPairs : Checks[p][NONE] # {}

VARIABLES
    phase,    \* where the single thread is
    queue,    \* pairs not yet started
    pair,     \* the pair being run
    session,  \* session[side] of that pair
    catalog,  \* catalog[p]: the tables both sides listed for p
    tables,   \* selected tables not yet visited
    table,    \* the table whose checks run
    todo,     \* its checks not yet run
    found,    \* the pair's results so far, local to run_pair
    raised,   \* an exception is on its way out of the `with` clauses
    results,  \* the results run() has collected
    webhook,  \* a Slack webhook is configured and alerts are on
    report, alert, exit,  \* as in CronContract
    incidents \* history: what went wrong under the run, as Incident records

vars == <<phase, queue, pair, session, catalog, tables, table, todo, found,
          raised, results, webhook, report, alert, exit, incidents>>

\* What run_pair works on, and what the end of a run works on.
pairVars   == <<pair, session, catalog, tables, table, todo, found, raised,
                incidents>>
outletVars == <<webhook, report, alert, exit>>

Result == [pair   : Pairs,
           table  : Tables \cup {NONE},
           check  : CheckNames \cup {"table_presence", "connection"},
           status : Statuses]

\* CheckResult(check, label, status, ...); the label is the pair and the table.
CheckResult(p, t, c, s) == [pair |-> p, table |-> t, check |-> c, status |-> s]

\* An incident of a pair as a whole: a connect, a listing or a close that raised
\* ("leak": and left its session open).  An incident of one check's query: the
\* engine rejected it, rejected it for a column the target lacks, or the session
\* broke under it.
WholeKinds == {"connection", "leak"}
QueryKinds == {"rejected", "column", "lost"}

Incident == [pair  : Pairs,
             table : Tables \cup {NONE},
             check : CheckNames \cup {"connection"},
             side  : Sides,
             kind  : WholeKinds \cup QueryKinds]

\* The history of this step: it happened at side s, to check c of the table.
Happens(c, s, k) ==
    incidents' = incidents \cup {[pair |-> pair, table |-> table, check |-> c,
                                 side |-> s, kind |-> k]}

\* What select_tables keeps of the source's listing.
Selected(p) == catalog[p].source \cap Wanted[p]

Init ==
    /\ phase = "load" /\ queue = Pairs /\ pair = NONE
    /\ session = [s \in Sides |-> "closed"]
    /\ catalog = [p \in Pairs |-> [source |-> {}, target |-> {}]]
    /\ tables = {} /\ table = NONE /\ todo = {} /\ found = {} /\ results = {}
    /\ raised = FALSE
    /\ webhook = FALSE /\ report = "none" /\ alert = "none"
    /\ exit = StillRunning /\ incidents = {}

-----------------------------------------------------------------------------
(* cli.check: the configuration *)

Load ==
    /\ phase = "load"
    /\ phase' = "next"
    /\ webhook' \in BOOLEAN
    /\ UNCHANGED <<queue, pairVars, results, report, alert, exit>>

\* No file, no YAML, no valid configuration, an unset environment variable.
LoadFails ==
    /\ phase = "load"
    /\ phase' = "done" /\ exit' = 1
    /\ UNCHANGED <<queue, pairVars, results, webhook, report, alert>>

-----------------------------------------------------------------------------
(* run_pair: two sessions, the checks, and the except clause around both *)

StartPair(p) ==
    /\ phase = "next" /\ p \in queue
    /\ phase' = "connect" /\ pair' = p /\ queue' = queue \ {p}
    /\ UNCHANGED <<session, catalog, tables, table, todo, found, raised,
                   incidents, results, outletVars>>

\* The side whose `with` clause is entered next.
Opening == IF session["source"] = "closed" THEN "source" ELSE "target"

Open ==
    /\ phase = "connect"
    /\ session' = [session EXCEPT ![Opening] = "open"]
    /\ IF Opening = "source" THEN UNCHANGED <<phase, todo>>
       ELSE IF pair \in SchemaPairs THEN phase' = "list" /\ UNCHANGED todo
       ELSE phase' = "check" /\ todo' = Checks[pair][NONE]
    /\ UNCHANGED <<queue, pair, catalog, tables, table, found, raised,
                   incidents, results, outletVars>>

\* `list(pair.checks) or ["connection"]`, each an ERROR.
NoFallbackName(p) == {CheckResult(p, NONE, c, "error") : c \in Checks[p][NONE]}
ConnectionErrors(p) ==
    LET failed == IF Checks[p][NONE] = {} THEN {"connection"}
                  ELSE Checks[p][NONE]
    IN  {CheckResult(p, NONE, c, "error") : c \in failed}

\* An exception goes up to the exit of the innermost `with` it is in; the results
\* collected for the pair so far go with the stack frame.
Unwind(to) ==
    /\ phase' = to /\ raised' = TRUE
    /\ found' = {} /\ tables' = {} /\ table' = NONE /\ todo' = {}
    /\ UNCHANGED <<queue, pair, catalog, results, outletVars>>

\* connect() raises; no `with` clause of its own has been entered for that side.
ConnectFails ==
    /\ phase = "connect"
    /\ Happens("connection", Opening, "connection")
    /\ Unwind(IF Opening = "source" THEN "leave" ELSE "close_source")
    /\ UNCHANGED session

\* One of the two listings raises.
ListingFails(s) ==
    /\ phase = "list"
    /\ Happens("connection", s, "connection")
    /\ Unwind("close_target")
    /\ UNCHANGED session

\* The exit of each `with`, the target's first.  The source's runs whether the
\* target's returned or raised, as closing both by hand would not.
Closing == [target |-> "close_target", source |-> "close_source"]
ByHand(s, failed) == IF s = "target" /\ ~failed THEN "close_source" ELSE "leave"
Outward(s, failed) == IF s = "target" THEN "close_source" ELSE "leave"

Close(s) ==
    /\ phase = Closing[s] /\ phase' = Outward(s, FALSE)
    /\ session' = [session EXCEPT ![s] = "closed"]
    /\ UNCHANGED <<queue, pair, catalog, tables, table, todo, found, raised,
                   incidents, results, outletVars>>

\* close() raises, also in place of an exception already on its way.  The
\* adapter is gone; its session may stay open at the server.
CloseRaises(s, kind) ==
    /\ phase = Closing[s] /\ kind \in WholeKinds
    /\ Happens("connection", s, kind)
    /\ Unwind(Outward(s, TRUE))
    /\ session' = [session EXCEPT ![s] = "closed"]

\* Outside both `with` clauses run_pair returns what was found, or the errors of
\* its except clause, and run() extends its list.
LeavePair ==
    /\ phase = "leave"
    /\ results' = results \cup (IF raised THEN ConnectionErrors(pair) ELSE found)
    /\ found' = {} /\ raised' = FALSE /\ pair' = NONE /\ phase' = "next"
    /\ UNCHANGED <<queue, session, catalog, tables, table, todo, incidents,
                   outletVars>>

-----------------------------------------------------------------------------
(* _run_schema_pair *)

ListTables(S, T) ==
    /\ phase = "list"
    /\ catalog' = [catalog EXCEPT ![pair] = [source |-> S, target |-> T]]
    /\ tables' = S \cap Wanted[pair]
    /\ phase' = "tables"
    /\ UNCHANGED <<queue, pair, session, table, todo, found, raised, incidents,
                   results, outletVars>>

MissingTable(t) ==
    /\ phase = "tables" /\ t \in tables
    /\ Target[pair][t] \notin catalog[pair].target
    /\ tables' = tables \ {t}
    /\ found' = found \cup {CheckResult(pair, t, "table_presence", "fail")}
    /\ UNCHANGED <<phase, queue, pair, session, catalog, table, todo, raised,
                   incidents, results, outletVars>>

StartTable(t) ==
    /\ phase = "tables" /\ t \in tables
    /\ Target[pair][t] \in catalog[pair].target
    /\ t \notin BadRule[pair]
    /\ tables' = tables \ {t} /\ table' = t /\ todo' = Checks[pair][t]
    /\ phase' = "check"
    /\ UNCHANGED <<queue, pair, session, catalog, found, raised, incidents,
                   results, outletVars>>

\* checks_for raises (options that are not a mapping): the whole pair fails.
RuleRaises(t) ==
    /\ phase = "tables" /\ t \in tables
    /\ Target[pair][t] \in catalog[pair].target
    /\ t \in BadRule[pair]
    /\ Unwind("close_target")
    /\ UNCHANGED <<session, incidents>>

\* The WARN of a pair whose patterns select no table.
SilentWhenEmpty(p) == {}
NothingMatched(p) ==
    IF Selected(p) # {} THEN {} ELSE {CheckResult(p, NONE, "table_presence", "warn")}

EndTables ==
    /\ phase = "tables" /\ tables = {}
    /\ found' = found \cup NothingMatched(pair)
    /\ phase' = "close_target"
    /\ UNCHANGED <<queue, pair, session, catalog, tables, table, todo, raised,
                   incidents, results, outletVars>>

-----------------------------------------------------------------------------
(* _run_checks, and the sessions under it *)

\* The loop's one effect: check c is over with status s.
Judge(c, s) ==
    /\ found' = found \cup {CheckResult(pair, table, c, s)}
    /\ todo' = todo \ {c}
    /\ UNCHANGED <<phase, queue, pair, catalog, tables, table, raised, results,
                   outletVars>>

UnknownCheck(c) ==
    /\ phase = "check" /\ c \in todo \ Registered
    /\ Judge(c, "error")
    /\ UNCHANGED <<session, incidents>>

Running(c) == phase = "check" /\ c \in todo \cap Registered

\* c's query at the target names a column the target does not have.
NamesMissing(c) == c \in Naming[pair] /\ table \in Lacking[pair]

\* Every check reads the source first, then the target.
Evaluate(c, v) ==
    /\ Running(c) /\ ~NamesMissing(c)
    /\ \A s \in Sides : session[s] = "open"
    /\ v \in IF c = "schema_drift" /\ table \in Lacking[pair] THEN {"fail"}
             ELSE Verdicts[c]
    /\ Judge(c, v)
    /\ UNCHANGED <<session, incidents>>

\* "skipped": no timestamp column, no key, an empty source -- the source alone
\* decides, and the target is never asked.
Skip(c) ==
    /\ Running(c) /\ ~NamesMissing(c)
    /\ c \in {"freshness", "sampled_checksum"}
    /\ session["source"] = "open"
    /\ Judge(c, "ok")
    /\ UNCHANGED <<session, incidents>>

\* The check raises of itself, before its queries or over their answers, and
\* `except Exception` makes it an ERROR; the sessions are what they were.
CheckRaises(c) ==
    /\ Running(c) /\ c \in Raising[pair][table]
    /\ Judge(c, "error")
    /\ UNCHANGED <<session, incidents>>

\* PostgreSQL: after a rejected statement the transaction psycopg opened is
\* aborted, and nothing in the adapter rolls it back.
RejectionIsFatal(p, s) == IF Engine[p][s] # "bigquery" THEN "aborted" ELSE "open"
AfterRejection(p, s) == IF Engine[p][s] = "postgres" THEN "aborted" ELSE "open"

\* A query raises, which the same clause makes an ERROR: the target lacks the
\* column, ...
MissingColumn(c) ==
    /\ Running(c) /\ NamesMissing(c)
    /\ \A s \in Sides : session[s] = "open"
    /\ session' = [session EXCEPT !["target"] = AfterRejection(pair, "target")]
    /\ Happens(c, "target", "column")
    /\ Judge(c, "error")

\* ... the engine rejects the statement or the session breaks under it ...
QueryFails(c, s, state) ==
    /\ Running(c)
    /\ session["source"] = "open" /\ session[s] = "open"
    /\ \/ state = AfterRejection(pair, s)
       \/ state = "lost" /\ Engine[pair][s] # "bigquery"
    /\ session' = [session EXCEPT ![s] = state]
    /\ Happens(c, s, IF state = "lost" THEN "lost" ELSE "rejected")
    /\ Judge(c, "error")

\* ... or the session was already unusable.
SessionDead(c) ==
    /\ Running(c)
    /\ \E s \in Sides : session[s] \in {"aborted", "lost"}
    /\ Judge(c, "error")
    /\ UNCHANGED <<session, incidents>>

EndChecks ==
    /\ phase = "check" /\ todo = {}
    /\ phase' = IF pair \in SchemaPairs THEN "tables" ELSE "close_target"
    /\ table' = NONE
    /\ UNCHANGED <<queue, pair, session, catalog, tables, todo, found, raised,
                   incidents, results, outletVars>>

-----------------------------------------------------------------------------
(* cli.check: the report, the alert and the exit code *)

WarningsIgnored == {r \in results : r.status \in {"fail", "error"}}
Bad == {r \in results : r.status # "ok"}

PrintResults ==
    /\ phase = "next" /\ queue = {}
    /\ report' = "printed" /\ phase' = "alert"
    /\ UNCHANGED <<queue, pairVars, results, webhook, alert, exit>>

\* stdout is gone or cannot encode the report: a traceback and exit code 1.
PrintFails ==
    /\ phase = "next" /\ queue = {}
    /\ report' = "broken" /\ phase' = "done" /\ exit' = 1
    /\ UNCHANGED <<queue, pairVars, results, webhook, alert>>

\* slack.send posts only when something is not OK; its failure is swallowed.
SendAlert ==
    /\ phase = "alert"
    /\ alert' \in IF webhook /\ Bad # {} THEN {"sent", "failed"} ELSE {alert}
    /\ phase' = "exit"
    /\ UNCHANGED <<queue, pairVars, results, webhook, report, exit>>

Exit ==
    /\ phase = "exit"
    /\ exit' = exit_code(worst_status({r.status : r \in results}))
    /\ phase' = "done"
    /\ UNCHANGED <<queue, pairVars, results, webhook, report, alert>>

-----------------------------------------------------------------------------
(* The world around the process *)

\* read_timeout bounds a MySQL query; psycopg is given a connect timeout only.
NoReadTimeout(p, s) == Engine[p][s] # "bigquery"
MayHang(p, s) == Engine[p][s] = "postgres"

QueryHangs(s) ==
    /\ phase = "list" \/ (phase = "check" /\ todo \cap Registered # {})
    /\ session["source"] = "open" /\ session[s] = "open" /\ MayHang(pair, s)
    /\ phase' = "hung" /\ session' = [session EXCEPT ![s] = "hung"]
    /\ UNCHANGED <<queue, pair, catalog, tables, table, todo, found, raised,
                   incidents, results, outletVars>>

\* The scheduler's time limit: nothing is written, nothing is cleaned up.
Kill ==
    /\ exit = StillRunning
    /\ exit' = Killed /\ phase' = "done"
    /\ UNCHANGED <<queue, pairVars, results, webhook, report, alert>>

Terminated == phase = "done" /\ UNCHANGED vars

-----------------------------------------------------------------------------
RunCheck ==
    \/ \E c \in CheckNames :
          \/ UnknownCheck(c) \/ Skip(c) \/ CheckRaises(c)
          \/ MissingColumn(c) \/ SessionDead(c)
          \/ \E v \in Statuses : Evaluate(c, v)
          \/ \E s \in Sides, state \in {"open", "aborted", "lost"} :
                QueryFails(c, s, state)
    \/ EndChecks

RunSchemaPair ==
    \/ \E S, T \in SUBSET Tables : ListTables(S, T)
    \/ \E t \in Tables : MissingTable(t) \/ StartTable(t) \/ RuleRaises(t)
    \/ EndTables

RunPair == \/ \E p \in Pairs : StartPair(p)
           \/ Open \/ ConnectFails \/ RunSchemaPair \/ RunCheck
           \/ \E s \in Sides : \/ ListingFails(s) \/ Close(s)
                              \/ \E kind \in WholeKinds : CloseRaises(s, kind)
           \/ LeavePair

Command == Load \/ LoadFails \/ RunPair \/ PrintResults \/ PrintFails
           \/ SendAlert \/ Exit

Next == Command \/ (\E s \in Sides : QueryHangs(s)) \/ Kill \/ Terminated

Spec == Init /\ [][Next]_vars

\* The interpreter keeps running the command as long as a step is possible.
FairSpec == Spec /\ WF_vars(Command)

-----------------------------------------------------------------------------
(* Properties *)

Phases == {"load", "next", "connect", "list", "tables", "check", "close_target",
           "close_source", "leave", "alert", "exit", "done", "hung"}

SessionStates == {"closed", "open", "aborted", "lost", "hung"}

\* Every variable stays within what the code can put in it.
TypeOK ==
    /\ phase \in Phases /\ queue \subseteq Pairs /\ pair \in Pairs \cup {NONE}
    /\ session \in [Sides -> SessionStates]
    /\ catalog \in [Pairs -> [source : SUBSET Tables, target : SUBSET Tables]]
    /\ tables \subseteq Tables /\ table \in Tables \cup {NONE}
    /\ todo \subseteq CheckNames /\ raised \in BOOLEAN
    /\ found \subseteq Result /\ results \subseteq Result
    /\ webhook \in BOOLEAN /\ report \in {"none", "printed", "broken"}
    /\ alert \in {"none", "sent", "failed"}
    /\ exit \in ExitCodes \cup {StillRunning, Killed}
    /\ incidents \subseteq Incident

\* What the run owes a pair, given what its two sides listed: for a table pair
\* a result per check; for a schema pair a result per check of every selected
\* table, a table_presence result for a table the target lacks, and one for
\* the pair itself if nothing was selected.
Due(p, t) == IF Target[p][t] \in catalog[p].target THEN Checks[p][t]
             ELSE {"table_presence"}

Expected(p) ==
    IF p \notin SchemaPairs THEN {<<NONE, c>> : c \in Checks[p][NONE]}
    ELSE IF Selected(p) = {} THEN {<<NONE, "table_presence">>}
    ELSE UNION {{<<t, c>> : c \in Due(p, t)} : t \in Selected(p)}

ResultsOf(p) == {r \in results : r.pair = p}

Covered(R) == {<<r.table, r.check>> : r \in R}

Finished(p) == p \in Pairs \ queue /\ p # pair

\* What makes run_pair leave by its except clause: a connect, a listing or a
\* close that raised, or a selected table whose rules cannot be merged.
ConnectionBroke(p) == \E i \in incidents : i.pair = p /\ i.kind \in WholeKinds

RuleBreaks(p) ==
    p \in SchemaPairs /\ \E t \in Selected(p) \cap BadRule[p] :
                              Target[p][t] \in catalog[p].target

Broken(p) == ConnectionBroke(p) \/ RuleBreaks(p)

\* A pair that failed as a whole says so: an ERROR for each of its own checks,
\* and for at least one name if all its checks are those of its tables.
FailedAsWhole(p, R) ==
    /\ R # {} /\ \A r \in R : r.table = NONE /\ r.status = "error"
    /\ Checks[p][NONE] # {} => Covered(R) = {<<NONE, c>> : c \in Checks[p][NONE]}

Accounted(p) ==
    LET R == ResultsOf(p) IN
    /\ \A r, q \in R : r.table = q.table /\ r.check = q.check => r = q
    /\ IF Broken(p) THEN FailedAsWhole(p, R) ELSE Covered(R) = Expected(p)

\* Whatever happens to connections, statements and other pairs, a pair that is
\* over has exactly one result for everything it owes -- or, if its connections
\* or its rules broke, it failed as a whole and the report says exactly that.
NothingLost == \A p \in Pairs : Finished(p) => Accounted(p)

\* Exit code 0 is earned: nothing went wrong under the run, every pair selected
\* something, and everything it owes came out "ok"; no table was missing and no
\* check was unknown.
GreenIsEarned ==
    exit = 0 =>
        /\ incidents = {}
        /\ \A p \in Pairs :
              /\ Covered(ResultsOf(p)) = Expected(p)
              /\ p \in SchemaPairs => Selected(p) # {}
              /\ \A r \in ResultsOf(p) : r.status = "ok"

\* Whichever of connect, listing, a rule, a check and the closes themselves
\* failed, and in whatever order: between two pairs, and after the last, every
\* session that was opened has been closed.  Only one whose own close() raised
\* can stay open at its server, and then the report has the pair as failed.
SessionsReleased ==
    /\ pair = NONE => \A s \in Sides : session[s] = "closed"
    /\ \A i \in incidents : i.kind = "leak" /\ Finished(i.pair) =>
          FailedAsWhole(i.pair, ResultsOf(i.pair))

\* An incident that leaves the session unusable for the checks that follow: it
\* broke, or PostgreSQL rejected a statement and nobody rolled back.
Fatal(i) == \/ i.kind = "lost"
            \/ i.kind \in {"rejected", "column"} /\ Engine[i.pair][i.side] = "postgres"

\* What an incident may do to a result: it is of that very check, or fatal.
Hits(i, r) == /\ i.pair = r.pair
              /\ Fatal(i) \/ (i.table = r.table /\ i.check = r.check)

\* schema_drift.py: a column the target lacks is a FAIL of schema_drift, also
\* when an earlier check of the same table tripped over that very column.
MissingColumnIsFail ==
    \A r \in results :
        /\ r.check = "schema_drift" /\ r.table \in Lacking[r.pair]
        /\ ~Broken(r.pair) /\ "schema_drift" \notin Raising[r.pair][r.table]
        /\ \A i \in incidents : Hits(i, r) => i.kind = "column"
        => r.status = "fail"

\* checks/base.py: an ERROR is an infrastructure failure, or an error of that
\* very check's own; what befalls one check is an ERROR of another only over a
\* session of the same pair that broke before, or a PostgreSQL one in which a
\* statement was rejected before -- never over MySQL or BigQuery after a mere
\* rejection, never of another pair's, and of a pair as a whole only if that
\* pair's connections or rules broke.
ErrorsStayLocal ==
    \A r \in found \cup results : r.status = "error" =>
        \/ r.table = NONE /\ Broken(r.pair)
        \/ r.check \notin Registered \/ r.check \in Raising[r.pair][r.table]
        \/ \E i \in incidents : Hits(i, r)

\* cli.py: "Exit codes are the cron contract: 0 all green, 1 warnings, 2
\* failures/errors" -- read as: 1 says that the worst result is a warning.
OneMeansWarnings ==
    exit = 1 => worst_status({r.status : r \in results}) = "warn"

\* What the scheduler sees of the run is what the contract promises.
Contract == INSTANCE CronContract WITH
    statuses <- IF report = "printed" THEN {r.status : r \in results} ELSE {}

KeepsContract == Contract!Spec

\* "Run all configured checks once and exit": every failure, at any step, in any
\* combination and on any engine, leaves the command a way to its end -- but a
\* PostgreSQL query that never returns, which nothing bounds, as read_timeout
\* does for MySQL.
OnlyPostgresHangs ==
    <>(\/ exit # StillRunning
       \/ \E s \in Sides : session[s] = "hung" /\ Engine[pair][s] = "postgres")
=============================================================================
