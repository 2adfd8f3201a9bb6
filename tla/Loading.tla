------------------------------ MODULE Loading ------------------------------
(***************************************************************************)
(* From a URL or a file to a configuration: urls.py, config.py and the     *)
(* commands init, scan and check of cli.py up to where they run the        *)
(* checks.  Processes share the one file and may be killed at any time;    *)
(* each has an environment of its own.  Two writers at the same instant    *)
(* are taken to replace each other's text as a whole.                      *)
(***************************************************************************)
EXTENDS Integers, Sequences, FiniteSets

CONSTANTS
    Procs,       \* processes, each of which runs one command
    Sources, Targets,  \* URLs given to --source and --target
    Secrets,     \* what must not be written to disk
    Held,        \* Held[var]: the secret an environment has for a variable
    Environs,    \* the sets of variables an environment may have
    HandWritten, \* configurations an operator may save
    Truncated,   \* the file when it was opened for writing and is empty
    NONE         \* an option, a key or a value that is not there

ASSUME LoadingAssumption ==
    /\ {NONE, "operator"} \cap Procs = {}
    /\ \A v \in DOMAIN Held : Held[v] \in Secrets
    /\ \A V \in Environs : V \subseteq DOMAIN Held

VARIABLES
    file,     \* cdcanary.yml: NONE, Truncated, or the mapping in it
    pc, cmd,  \* the command of each process and where it is
    cfg,      \* the Config each process goes on with, NONE if none
    owner,    \* history: the process whose init wrote the file, or Operator
    from      \* history: the owner of the file each process loaded

history == <<owner, from>>
vars == <<file, pc, cmd, cfg, history>>

Operator == "operator"

-----------------------------------------------------------------------------
(* urls.parse.  A URL has a scheme, a host, path parts and a password. *)

Schemes == {"mysql", "postgres", "postgresql", "bigquery"}

Rejected(u) == u.scheme \notin Schemes \/ u.host = NONE \/ u.parts = <<>>

EngineOf(u) == IF u.scheme = "postgresql" THEN "postgres" ELSE u.scheme

\* A bigquery URL has no password, and a dataset in place of a database.
connection(u) ==
    [type |-> EngineOf(u), host |-> u.host,
     database |-> IF u.scheme = "bigquery" THEN NONE ELSE u.parts[1],
     password |-> IF u.scheme = "bigquery" THEN NONE ELSE u.password,
     credentials |-> NONE]

namespace(u) ==
    IF u.scheme = "bigquery" THEN u.parts[1]
    ELSE IF Len(u.parts) > 1 THEN u.parts[2]
    ELSE IF EngineOf(u) = "postgres" THEN "public" ELSE u.parts[1]

-----------------------------------------------------------------------------
(* Configurations *)

DEFAULT_CHECKS ==
    {"row_delta", "freshness", "null_rate", "schema_drift", "sampled_checksum"}

Endpoint(conn, tab, ns) == [connection |-> conn, table |-> tab, schema |-> ns]

\* What scan and init make of two URLs.
SchemaPair(s, t) ==
    [source |-> Endpoint("source", NONE, namespace(s)),
     target |-> Endpoint("target", NONE, namespace(t)),
     checks |-> {}, defaults |-> DEFAULT_CHECKS, overrides |-> {}]

env(var) == [env |-> var]

_scan_config(s, t) ==
    [connections |-> [source |-> connection(s), target |-> connection(t)],
     pairs |-> <<SchemaPair(s, t)>>, slack_webhook |-> NONE]

OneVariable(conn, var) ==  \* mutant of Placeheld
    IF conn.password # NONE
    THEN [conn EXCEPT !.password = env("CDCANARY_SOURCE_PASSWORD")] ELSE conn
SourceOnly(conn, var) ==  \* mutant of Placeheld
    IF conn.password # NONE /\ var = "CDCANARY_SOURCE_PASSWORD"
    THEN [conn EXCEPT !.password = env(var)] ELSE conn
\* "never write secrets to disk"
Placeheld(conn, var) ==
    IF conn.password # NONE THEN [conn EXCEPT !.password = env(var)] ELSE conn

Generated(s, t) ==
    [connections |-> [source |-> Placeheld(connection(s), "CDCANARY_SOURCE_PASSWORD"),
                      target |-> Placeheld(connection(t), "CDCANARY_TARGET_PASSWORD")],
     pairs |-> <<SchemaPair(s, t)>>, slack_webhook |-> env("CDCANARY_SLACK_WEBHOOK")]

EXAMPLE_CONFIG ==
    [connections |-> [
        mysql_prod |-> [type |-> "mysql", host |-> "prod-db.internal", database |-> "shop",
                        password |-> env("MYSQL_PASSWORD"), credentials |-> NONE],
        bq_raw |-> [type |-> "bigquery", host |-> "my-project", database |-> NONE,
                    password |-> NONE,
                    credentials |-> env("GOOGLE_APPLICATION_CREDENTIALS")]],
     pairs |-> <<
        [source |-> Endpoint("mysql_prod", NONE, "shop"),
         target |-> Endpoint("bq_raw", NONE, "raw_shop"),
         checks |-> {}, defaults |-> DEFAULT_CHECKS,
         overrides |-> {{"match", "checks"}}],
        [source |-> Endpoint("mysql_prod", "shop.payments", NONE),
         target |-> Endpoint("bq_raw", "raw_shop.payments_v2", NONE),
         checks |-> {"row_delta", "freshness", "null_rate"}, defaults |-> {},
         overrides |-> {}]>>,
     slack_webhook |-> env("CDCANARY_SLACK_WEBHOOK")]

-----------------------------------------------------------------------------
(* _resolve_env *)

IsEnv(value) == \E v \in DOMAIN Held : value = env(v)

Values(raw) ==
    {raw.slack_webhook}
    \cup UNION {{raw.connections[c].password, raw.connections[c].credentials} :
                c \in DOMAIN raw.connections}

Placeholders(raw) == {v \in DOMAIN Held : env(v) \in Values(raw)}

Resolved(value) == IF IsEnv(value) THEN Held[value.env] ELSE value

\* "environment variable not set" otherwise.
Resolvable(raw, p) == Placeholders(raw) \subseteq cmd[p].environ

_resolve_env(raw) ==
    [raw EXCEPT !.slack_webhook = Resolved(raw.slack_webhook),
                !.connections = [c \in DOMAIN raw.connections |->
                    [raw.connections[c] EXCEPT
                        !.password = Resolved(raw.connections[c].password),
                        !.credentials = Resolved(raw.connections[c].credentials)]]]

-----------------------------------------------------------------------------
(* What URLs, secrets and saved configurations are like *)

Named(s) == s \notin {NONE, ""}

\* urlsplit leaves no empty path part; no password is spelled like a
\* placeholder, and every variable that init writes can be set.
ASSUME URLAssumption ==
    /\ \A u \in Sources \cup Targets :
          /\ u.parts \in Seq(STRING) /\ \A i \in DOMAIN u.parts : Named(u.parts[i])
          /\ u.password \in Secrets \cup {NONE}
    /\ NONE \notin Secrets \cup {"", "public"}
    /\ {"CDCANARY_SOURCE_PASSWORD", "CDCANARY_TARGET_PASSWORD",
        "CDCANARY_SLACK_WEBHOOK", "MYSQL_PASSWORD",
        "GOOGLE_APPLICATION_CREDENTIALS"} \subseteq DOMAIN Held
    /\ \A value \in Secrets \cup {NONE} : ~IsEnv(value)

\* The mapping in a file has its three keys, and connections their five.
WellFormed(raw) ==
    /\ raw = [connections |-> raw.connections, pairs |-> raw.pairs,
              slack_webhook |-> raw.slack_webhook]
    /\ \A c \in DOMAIN raw.connections :
          LET conn == raw.connections[c]
          IN  conn = [type |-> conn.type, host |-> conn.host, database |-> conn.database,
                      password |-> conn.password, credentials |-> conn.credentials]

\* Operators keep secrets in the environment, as init does.
ASSUME HandWrittenAssumption ==
    \A raw \in HandWritten : WellFormed(raw) /\ Values(raw) \cap Secrets = {}

Accepted(urls) == {u \in urls : ~Rejected(u)}

\* What init writes.
Writable ==
    {EXAMPLE_CONFIG}
    \cup {Generated(s, t) : s \in Accepted(Sources), t \in Accepted(Targets)}

\* NONE is no configuration.
ASSUME NoneAssumption ==
    /\ \A raw \in HandWritten \cup Writable : _resolve_env(raw) # NONE
    /\ \A s \in Accepted(Sources), t \in Accepted(Targets) : _scan_config(s, t) # NONE

-----------------------------------------------------------------------------
(* _parse_pair and from_dict.  An endpoint that is no mapping, or lacks a   *)
(* connection, is NONE; of an override only the keys it has matter.         *)

kind(e) == IF Named(e.schema) THEN "schema" ELSE IF Named(e.table) THEN "table" ELSE NONE

is_schema_pair(pair) == pair.source.schema # NONE

InvalidOverride(keys) == "match" \notin keys \/ {"checks", "target_table"} \cap keys = {}

OneKind(pair) ==  \* mutant of InvalidPair
    \/ NONE \in {pair.source, pair.target}
    \/ kind(pair.source) = NONE
    \/ \E o \in pair.overrides : InvalidOverride(o)
    \/ (IF is_schema_pair(pair) THEN pair.defaults ELSE pair.checks) = {}
InvalidPair(pair) ==
    \/ NONE \in {pair.source, pair.target}
    \/ kind(pair.source) = NONE \/ kind(pair.source) # kind(pair.target)
    \/ \E o \in pair.overrides : InvalidOverride(o)
    \/ (IF is_schema_pair(pair) THEN pair.defaults ELSE pair.checks) = {}

Invalid(raw) ==
    \/ DOMAIN raw.connections = {} \/ raw.pairs = <<>>
    \/ \E i \in DOMAIN raw.pairs :
          \/ InvalidPair(raw.pairs[i])
          \/ \E e \in {raw.pairs[i].source, raw.pairs[i].target} :
                e.connection \notin DOMAIN raw.connections

-----------------------------------------------------------------------------
(* The commands *)

Ends(p, how) == pc' = [pc EXCEPT ![p] = how]

\* A command line, and the variables set in its environment.
Command(name, discover, s, t, env_vars) ==
    [name |-> name, discover |-> discover, source |-> s, target |-> t, environ |-> env_vars]

Commands ==
    {Command("init", FALSE, NONE, NONE, {})}
    \cup {Command("init", TRUE, s, t, {}) : s \in Sources \cup {NONE}, t \in Targets}
    \cup {Command("scan", FALSE, s, t, {}) : s \in Sources, t \in Targets}
    \cup {Command("check", FALSE, NONE, NONE, V) : V \in Environs}

RunsAnyway(p) ==  \* mutant of Scan
    LET c == cmd[p] IN
    /\ pc[p] = "start" /\ c.name = "scan" /\ Ends(p, "runs")
    /\ cfg' = IF Rejected(c.source) \/ Rejected(c.target) THEN cfg
              ELSE [cfg EXCEPT ![p] = _scan_config(c.source, c.target)]
    /\ UNCHANGED <<file, history>>
Scan(p) ==
    LET c == cmd[p] IN
    /\ pc[p] = "start" /\ c.name = "scan"
    /\ IF Rejected(c.source) \/ Rejected(c.target)
       THEN Ends(p, "refused") /\ UNCHANGED cfg
       ELSE Ends(p, "runs") /\ cfg' = [cfg EXCEPT ![p] = _scan_config(c.source, c.target)]
    /\ UNCHANGED <<file, history>>

\* "already exists -- not overwriting", before anything else is looked at
InitTests(p) ==
    /\ pc[p] = "start" /\ cmd[p].name = "init"
    /\ Ends(p, IF file = NONE THEN "absent" ELSE "refused")
    /\ UNCHANGED <<file, cfg, history>>

BadURLs(c) ==
    c.discover /\ ~(c.source # NONE /\ ~Rejected(c.source) /\ ~Rejected(c.target))

InitRejects(p) ==
    /\ pc[p] = "absent" /\ BadURLs(cmd[p])
    /\ Ends(p, "refused")
    /\ UNCHANGED <<file, cfg, history>>

\* write_text() opens the file, which creates or truncates it, ...
InitOpens(p) ==
    /\ pc[p] = "absent" /\ ~BadURLs(cmd[p])
    /\ Ends(p, "writing")
    /\ file' = Truncated /\ owner' = NONE
    /\ UNCHANGED <<cfg, from>>

\* ... and writes its buffer, which takes all of the text.
InitWrites(p) ==
    /\ pc[p] = "writing"
    /\ Ends(p, "wrote")
    /\ file' = IF cmd[p].discover THEN Generated(cmd[p].source, cmd[p].target)
               ELSE EXAMPLE_CONFIG
    /\ owner' = p
    /\ UNCHANGED <<cfg, from>>

\* A missing file, one that is no mapping, an unset variable, a ConfigError.
Loads(p) ==
    /\ file \notin {NONE, Truncated}
    /\ Resolvable(file, p) /\ ~Invalid(_resolve_env(file))

CheckLoads(p) ==
    /\ pc[p] = "start" /\ cmd[p].name = "check"
    /\ IF Loads(p)
       THEN Ends(p, "runs") /\ cfg' = [cfg EXCEPT ![p] = _resolve_env(file)]
       ELSE Ends(p, "refused") /\ UNCHANGED cfg
    /\ from' = [from EXCEPT ![p] = owner]
    /\ UNCHANGED <<file, owner>>

Killed(p) ==
    /\ pc[p] \in {"absent", "writing"}
    /\ Ends(p, "killed")
    /\ UNCHANGED <<file, cfg, history>>

Process(p) ==
    \/ Scan(p) \/ InitTests(p) \/ InitRejects(p) \/ InitOpens(p) \/ InitWrites(p)
    \/ CheckLoads(p) \/ Killed(p)

\* An operator saves a configuration written by hand, whatever was there:
\* bound: not twice in a row.
Saves(raw) ==
    /\ owner # Operator
    /\ file' = raw /\ owner' = Operator
    /\ UNCHANGED <<pc, cfg, from>>

Init ==
    /\ file = NONE /\ owner = NONE
    /\ cmd \in [Procs -> Commands]
    /\ pc = [p \in Procs |-> "start"]
    /\ cfg = [p \in Procs |-> NONE] /\ from = [p \in Procs |-> NONE]

Next == /\ (\E raw \in HandWritten : Saves(raw)) \/ \E p \in Procs : Process(p)
        /\ UNCHANGED cmd

Spec == Init /\ [][Next]_vars

-----------------------------------------------------------------------------
Owners == Procs \cup {Operator, NONE}

TypeOK ==
    /\ file \in {NONE, Truncated, EXAMPLE_CONFIG} \cup HandWritten
               \cup {Generated(cmd[p].source, cmd[p].target) :
                         p \in {q \in Procs : cmd[q].discover /\ ~BadURLs(cmd[q])}}
    /\ cmd \in [Procs -> Commands]
    /\ pc \in [Procs -> {"start", "absent", "writing", "wrote", "runs", "refused", "killed"}]
    /\ \A p \in Procs : pc[p] = "runs" <=> cfg[p] # NONE
    /\ owner \in Owners /\ from \in [Procs -> Owners]

\* "never write secrets to disk": whatever the URLs contain and whoever else
\* writes the file, the file holds no secret.
NoSecretOnDisk ==
    file \notin {NONE, Truncated} => Values(file) \cap Secrets = {}

\* init --discover and check amount to scan: with the passwords in the
\* environment under the names init chose, check goes on with exactly the
\* connections and pairs that scan makes of the same URLs.
KnowsPasswords(c) ==
    /\ c.source.password \in {NONE, Held["CDCANARY_SOURCE_PASSWORD"]}
    /\ c.target.password \in {NONE, Held["CDCANARY_TARGET_PASSWORD"]}
RoundTrip ==
    \A p \in Procs : \A q \in Procs \cap {from[p]} :
        cfg[p] # NONE /\ cmd[q].discover /\ KnowsPasswords(cmd[q]) =>
            [cfg[p] EXCEPT !.slack_webhook = NONE]
                = _scan_config(cmd[q].source, cmd[q].target)

\* What the runner asks of a pair exists: a schema or a table on both sides,
\* according to the kind the runner takes the pair for, and checks to run.
PairRunnable(pair) ==
    LET ends == {pair.source, pair.target}
    IN  IF is_schema_pair(pair)
        THEN (\A e \in ends : Named(e.schema)) /\ pair.defaults # {}
        ELSE (\A e \in ends : Named(e.table)) /\ pair.checks # {}

\* Two tables, of which the source has an empty schema beside it.
Nameless(pair) ==
    /\ pair.source.schema = ""
    /\ \A e \in {pair.source, pair.target} : kind(e) = "table"

Running == {p \in Procs : cfg[p] # NONE}

\* "source and target must both use 'table' or both use 'schema'": whoever wrote
\* the file, what check goes on with has both connections of each pair, no
\* placeholder where a secret belongs, and of pairs that cannot be run none but
\* those where _parse_pair and is_schema_pair differ about the kind.
RunnableUnlessNameless ==
    \A p \in Running :
        /\ Placeholders(cfg[p]) = {}
        /\ \A i \in DOMAIN cfg[p].pairs :
              LET pair == cfg[p].pairs[i]
              IN  /\ {pair.source.connection, pair.target.connection}
                         \subseteq DOMAIN cfg[p].connections
                  /\ PairRunnable(pair) \/ Nameless(pair)
=============================================================================
