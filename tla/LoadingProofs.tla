--------------------------- MODULE LoadingProofs ----------------------------
(***************************************************************************)
(* Proofs about Loading, for any number of processes, any URLs, any        *)
(* environments and any configurations an operator may save.               *)
(***************************************************************************)
EXTENDS Loading, TLAPS

-----------------------------------------------------------------------------
(* The configurations that init writes                                      *)

\* What takes the place of a password is no secret.
LEMMA PlaceheldSafe ==
    ASSUME NEW u, NEW var \in DOMAIN Held
    PROVE  Placeheld(connection(u), var).password \notin Secrets
<1>1. env(var) \notin Secrets
  BY URLAssumption DEF IsEnv
<1>2. NONE \notin Secrets
  BY URLAssumption
<1>3. CASE connection(u).password # NONE
  BY <1>1, <1>3 DEF Placeheld, connection
<1>4. CASE connection(u).password = NONE
  BY <1>2, <1>4 DEF Placeheld
<1> QED  BY <1>3, <1>4

LEMMA PlaceheldShape ==
    ASSUME NEW u, NEW var
    PROVE  LET conn == Placeheld(connection(u), var)
           IN  /\ conn = [type |-> conn.type, host |-> conn.host,
                          database |-> conn.database, password |-> conn.password,
                          credentials |-> conn.credentials]
               /\ conn.credentials = NONE
  BY DEF Placeheld, connection

LEMMA GeneratedShape ==
    ASSUME NEW s, NEW t
    PROVE  WellFormed(Generated(s, t))
<1> DEFINE raw == Generated(s, t)
<1>1. /\ raw.connections = [source |-> Placeheld(connection(s), "CDCANARY_SOURCE_PASSWORD"),
                            target |-> Placeheld(connection(t), "CDCANARY_TARGET_PASSWORD")]
      /\ raw = [connections |-> raw.connections, pairs |-> raw.pairs,
                slack_webhook |-> raw.slack_webhook]
  BY DEF Generated
<1>2. \A c \in DOMAIN raw.connections :
          \/ raw.connections[c] = Placeheld(connection(s), "CDCANARY_SOURCE_PASSWORD")
          \/ raw.connections[c] = Placeheld(connection(t), "CDCANARY_TARGET_PASSWORD")
  BY <1>1
<1> HIDE DEF raw
<1>3. WellFormed(raw)
  BY <1>1, <1>2, PlaceheldShape DEF WellFormed
<1> QED  BY <1>3 DEF raw

LEMMA GeneratedSafe ==
    ASSUME NEW s, NEW t
    PROVE  Values(Generated(s, t)) \cap Secrets = {}
<1> DEFINE raw == Generated(s, t)
<1>1. /\ raw.connections = [source |-> Placeheld(connection(s), "CDCANARY_SOURCE_PASSWORD"),
                            target |-> Placeheld(connection(t), "CDCANARY_TARGET_PASSWORD")]
      /\ raw.slack_webhook = env("CDCANARY_SLACK_WEBHOOK")
  BY DEF Generated
<1>2. \A c \in DOMAIN raw.connections :
          /\ raw.connections[c].password \notin Secrets
          /\ raw.connections[c].credentials = NONE
  <2>1. /\ Placeheld(connection(s), "CDCANARY_SOURCE_PASSWORD").password \notin Secrets
        /\ Placeheld(connection(t), "CDCANARY_TARGET_PASSWORD").password \notin Secrets
    BY PlaceheldSafe, URLAssumption
  <2> QED  BY <1>1, <2>1, PlaceheldShape
<1>3. raw.slack_webhook \notin Secrets /\ NONE \notin Secrets
  BY <1>1, URLAssumption DEF IsEnv
<1> HIDE DEF raw
<1>4. Values(raw) \cap Secrets = {}
  BY <1>2, <1>3 DEF Values
<1> QED  BY <1>4 DEF raw

LEMMA ExampleShape == WellFormed(EXAMPLE_CONFIG)
  BY DEF WellFormed, EXAMPLE_CONFIG

LEMMA ExampleSafe == Values(EXAMPLE_CONFIG) \cap Secrets = {}
<1> DEFINE conns == EXAMPLE_CONFIG.connections
<1>1. /\ DOMAIN conns = {"mysql_prod", "bq_raw"}
      /\ conns["mysql_prod"].password = env("MYSQL_PASSWORD")
      /\ conns["mysql_prod"].credentials = NONE
      /\ conns["bq_raw"].password = NONE
      /\ conns["bq_raw"].credentials = env("GOOGLE_APPLICATION_CREDENTIALS")
      /\ EXAMPLE_CONFIG.slack_webhook = env("CDCANARY_SLACK_WEBHOOK")
  BY DEF EXAMPLE_CONFIG
<1>2. /\ NONE \notin Secrets
      /\ \A v \in {"CDCANARY_SLACK_WEBHOOK", "MYSQL_PASSWORD",
                   "GOOGLE_APPLICATION_CREDENTIALS"} : env(v) \notin Secrets
  BY URLAssumption DEF IsEnv
<1> QED  BY <1>1, <1>2 DEF Values

-----------------------------------------------------------------------------
(* Resolving them                                                           *)

LEMMA ResolvedIsPlain == ASSUME NEW value  PROVE ~IsEnv(Resolved(value))
<1>1. CASE IsEnv(value)
  <2>1. PICK v \in DOMAIN Held : value = env(v)
    BY <1>1 DEF IsEnv
  <2>2. Resolved(value) = Held[v]
    BY <1>1, <2>1 DEF Resolved, env
  <2> QED  BY <2>2, LoadingAssumption, URLAssumption
<1>2. CASE ~IsEnv(value)
  BY <1>2 DEF Resolved
<1> QED  BY <1>1, <1>2

\* Of a configuration only the secrets change.
LEMMA ResolvedShape ==
    ASSUME NEW raw, WellFormed(raw)
    PROVE  \E conns :
               /\ _resolve_env(raw) = [connections |-> conns, pairs |-> raw.pairs,
                                       slack_webhook |-> Resolved(raw.slack_webhook)]
               /\ conns = [c \in DOMAIN raw.connections |-> conns[c]]
               /\ \A c \in DOMAIN raw.connections :
                     conns[c] =
                        [type |-> raw.connections[c].type,
                         host |-> raw.connections[c].host,
                         database |-> raw.connections[c].database,
                         password |-> Resolved(raw.connections[c].password),
                         credentials |-> Resolved(raw.connections[c].credentials)]
<1> DEFINE conns == [c \in DOMAIN raw.connections |->
                    [raw.connections[c] EXCEPT
                        !.password = Resolved(raw.connections[c].password),
                        !.credentials = Resolved(raw.connections[c].credentials)]]
<1>1. raw = [connections |-> raw.connections, pairs |-> raw.pairs,
             slack_webhook |-> raw.slack_webhook]
  BY DEF WellFormed
<1>2. _resolve_env(raw) = [raw EXCEPT !.slack_webhook = Resolved(raw.slack_webhook),
                                      !.connections = conns]
  BY Zenon DEF _resolve_env
<1>3. ASSUME NEW c \in DOMAIN raw.connections
      PROVE  conns[c] = [type |-> raw.connections[c].type,
                         host |-> raw.connections[c].host,
                         database |-> raw.connections[c].database,
                         password |-> Resolved(raw.connections[c].password),
                         credentials |-> Resolved(raw.connections[c].credentials)]
  <2> DEFINE conn == raw.connections[c]
  <2>1. conn = [type |-> conn.type, host |-> conn.host, database |-> conn.database,
                password |-> conn.password, credentials |-> conn.credentials]
    BY DEF WellFormed
  <2>2. conns[c] = [conn EXCEPT !.password = Resolved(conn.password),
                                !.credentials = Resolved(conn.credentials)]
    OBVIOUS
  <2> HIDE DEF conn, conns
  <2>3. conns[c] = [type |-> conn.type, host |-> conn.host,
                    database |-> conn.database,
                    password |-> Resolved(conn.password),
                    credentials |-> Resolved(conn.credentials)]
    BY <2>1, <2>2
  <2> QED  BY <2>3 DEF conn
<1>4. conns = [c \in DOMAIN raw.connections |-> conns[c]]
  OBVIOUS
<1> HIDE DEF conns
<1>5. _resolve_env(raw) = [connections |-> conns, pairs |-> raw.pairs,
                           slack_webhook |-> Resolved(raw.slack_webhook)]
  BY <1>1, <1>2
<1> QED  BY <1>3, <1>4, <1>5

LEMMA NoPlaceholderLeft ==
    ASSUME NEW raw, WellFormed(raw)
    PROVE  Placeholders(_resolve_env(raw)) = {}
<1> DEFINE res == _resolve_env(raw)
<1>0. PICK conns :
        /\ res = [connections |-> conns, pairs |-> raw.pairs,
                  slack_webhook |-> Resolved(raw.slack_webhook)]
        /\ conns = [c \in DOMAIN raw.connections |-> conns[c]]
        /\ \A c \in DOMAIN raw.connections :
              conns[c] = [type |-> raw.connections[c].type,
                          host |-> raw.connections[c].host,
                          database |-> raw.connections[c].database,
                          password |-> Resolved(raw.connections[c].password),
                          credentials |-> Resolved(raw.connections[c].credentials)]
  BY ResolvedShape, Zenon
<1> HIDE DEF res
<1>1. /\ res.slack_webhook = Resolved(raw.slack_webhook)
      /\ DOMAIN res.connections = DOMAIN raw.connections
      /\ \A c \in DOMAIN res.connections :
            /\ res.connections[c].password = Resolved(raw.connections[c].password)
            /\ res.connections[c].credentials = Resolved(raw.connections[c].credentials)
  <2>1. res.connections = conns /\ res.slack_webhook = Resolved(raw.slack_webhook)
    BY <1>0
  <2>2. DOMAIN conns = DOMAIN raw.connections
    BY <1>0, Zenon
  <2>3. ASSUME NEW c \in DOMAIN raw.connections
        PROVE  /\ conns[c].password = Resolved(raw.connections[c].password)
               /\ conns[c].credentials = Resolved(raw.connections[c].credentials)
    <3>1. conns[c] = [type |-> raw.connections[c].type,
                      host |-> raw.connections[c].host,
                      database |-> raw.connections[c].database,
                      password |-> Resolved(raw.connections[c].password),
                      credentials |-> Resolved(raw.connections[c].credentials)]
      BY <1>0, Zenon
    <3> QED  BY <3>1
  <2> QED  BY <2>1, <2>2, <2>3
<1>2. \A value \in Values(res) : ~IsEnv(value)
  BY <1>1, ResolvedIsPlain DEF Values
<1>3. Placeholders(res) = {}
  BY <1>2 DEF Placeholders, IsEnv
<1> QED  BY <1>3 DEF res

-----------------------------------------------------------------------------
(* What can be run                                                          *)

PairOK(pair, connections) ==
    /\ {pair.source.connection, pair.target.connection} \subseteq connections
    /\ PairRunnable(pair) \/ Nameless(pair)

Runnable(c) ==
    /\ Placeholders(c) = {}
    /\ \A i \in DOMAIN c.pairs : PairOK(c.pairs[i], DOMAIN c.connections)

LEMMA ValidPairRuns ==
    ASSUME NEW pair, ~InvalidPair(pair)
    PROVE  PairRunnable(pair) \/ Nameless(pair)
<1>1. /\ kind(pair.source) # NONE /\ kind(pair.source) = kind(pair.target)
      /\ IF is_schema_pair(pair) THEN pair.defaults # {} ELSE pair.checks # {}
  BY DEF InvalidPair
<1>2. CASE Named(pair.source.schema)
  <2>1. Named(pair.target.schema)
    BY <1>1, <1>2 DEF kind
  <2>2. is_schema_pair(pair)
    BY <1>2 DEF is_schema_pair, Named
  <2> QED  BY <1>1, <1>2, <2>1, <2>2 DEF PairRunnable
<1>3. CASE ~Named(pair.source.schema)
  <2>1. Named(pair.source.table) /\ Named(pair.target.table)
    BY <1>1, <1>3 DEF kind
  <2>2. kind(pair.source) = "table" /\ kind(pair.target) = "table"
    BY <1>1, <1>3 DEF kind
  <2>3. CASE pair.source.schema = NONE
    BY <1>1, <2>1, <2>3 DEF PairRunnable, is_schema_pair
  <2>4. CASE pair.source.schema = ""
    BY <2>2, <2>4 DEF Nameless
  <2> QED  BY <1>3, <2>3, <2>4 DEF Named
<1> QED  BY <1>2, <1>3

LEMMA LoadedRuns ==
    ASSUME NEW raw, WellFormed(raw), ~Invalid(_resolve_env(raw))
    PROVE  Runnable(_resolve_env(raw))
<1> DEFINE res == _resolve_env(raw)
<1>1. Placeholders(res) = {}
  BY NoPlaceholderLeft
<1> HIDE DEF res
<1>2. ASSUME NEW i \in DOMAIN res.pairs
      PROVE  PairOK(res.pairs[i], DOMAIN res.connections)
  <2>1. /\ ~InvalidPair(res.pairs[i])
        /\ \A e \in {res.pairs[i].source, res.pairs[i].target} :
              e.connection \in DOMAIN res.connections
    BY DEF Invalid, res
  <2> QED  BY <2>1, ValidPairRuns DEF PairOK
<1>3. Runnable(res)
  BY <1>1, <1>2 DEF Runnable
<1> QED  BY <1>3 DEF res

LEMMA NamespaceNamed ==
    ASSUME NEW u \in Accepted(Sources) \cup Accepted(Targets)
    PROVE  Named(namespace(u))
<1>1. /\ u.parts \in Seq(STRING) /\ \A i \in DOMAIN u.parts : Named(u.parts[i])
      /\ u.parts # <<>>
  BY URLAssumption DEF Accepted, Rejected
<1>2. 1 \in DOMAIN u.parts /\ (Len(u.parts) > 1 => 2 \in DOMAIN u.parts)
  BY <1>1
<1>3. Named("public")
  BY URLAssumption DEF Named
<1> QED  BY <1>1, <1>2, <1>3 DEF namespace

LEMMA ScanRuns ==
    ASSUME NEW s \in Accepted(Sources), NEW t \in Accepted(Targets)
    PROVE  Runnable(_scan_config(s, t))
<1> DEFINE c == _scan_config(s, t)
<1>1. /\ DOMAIN c.connections = {"source", "target"}
      /\ c.connections["source"] = connection(s)
      /\ c.connections["target"] = connection(t)
      /\ c.slack_webhook = NONE
      /\ c.pairs = <<SchemaPair(s, t)>>
  BY DEF _scan_config
<1>2. \A u \in {s, t} : /\ ~IsEnv(connection(u).password)
                        /\ ~IsEnv(connection(u).credentials)
  BY URLAssumption DEF Accepted, connection
<1>3. ~IsEnv(c.slack_webhook)
  BY <1>1, URLAssumption
<1> HIDE DEF c
<1>4. \A value \in Values(c) : ~IsEnv(value)
  BY <1>1, <1>2, <1>3 DEF Values
<1>5. Placeholders(c) = {}
  BY <1>4 DEF Placeholders, IsEnv
<1>6. PairOK(SchemaPair(s, t), {"source", "target"})
  <2>1. Named(namespace(s)) /\ Named(namespace(t))
    BY NamespaceNamed
  <2>2. is_schema_pair(SchemaPair(s, t)) /\ DEFAULT_CHECKS # {}
    BY <2>1 DEF is_schema_pair, SchemaPair, Endpoint, Named, DEFAULT_CHECKS
  <2> QED  BY <2>1, <2>2 DEF PairOK, PairRunnable, SchemaPair, Endpoint
<1>7. DOMAIN c.pairs = {1} /\ c.pairs[1] = SchemaPair(s, t)
  BY <1>1
<1>8. Runnable(c)
  BY <1>1, <1>5, <1>6, <1>7 DEF Runnable
<1> QED  BY <1>8 DEF c

-----------------------------------------------------------------------------
(* init followed by check                                                   *)

\* The variable that took the place of a password gives it back.
LEMMA PlaceheldResolves ==
    ASSUME NEW u, NEW var \in DOMAIN Held,
           connection(u).password \in {NONE, Held[var]}
    PROVE  LET conn == Placeheld(connection(u), var)
           IN  [type |-> conn.type, host |-> conn.host, database |-> conn.database,
                password |-> Resolved(conn.password),
                credentials |-> Resolved(conn.credentials)] = connection(u)
<1> DEFINE conn == Placeheld(connection(u), var)
<1>1. Resolved(NONE) = NONE
  BY URLAssumption DEF Resolved
<1>2. Resolved(env(var)) = Held[var]
  BY DEF Resolved, IsEnv, env
<1>3. Resolved(conn.password) = connection(u).password
  <2>1. CASE connection(u).password = NONE
    BY <1>1, <2>1 DEF Placeheld
  <2>2. CASE connection(u).password # NONE
    <3>1. conn.password = env(var)
      BY <2>2 DEF Placeheld, connection
    <3> QED  BY <1>2, <2>2, <3>1
  <2> QED  BY <2>1, <2>2
<1>4. /\ conn.type = connection(u).type /\ conn.host = connection(u).host
      /\ conn.database = connection(u).database
      /\ conn.credentials = NONE /\ connection(u).credentials = NONE
  BY DEF Placeheld, connection
<1>5. Resolved(conn.credentials) = connection(u).credentials
  BY <1>1, <1>4
<1>6. connection(u) = [type |-> connection(u).type, host |-> connection(u).host,
                       database |-> connection(u).database,
                       password |-> connection(u).password,
                       credentials |-> connection(u).credentials]
  BY DEF connection
<1> HIDE DEF conn
<1>7. [type |-> conn.type, host |-> conn.host, database |-> conn.database,
       password |-> Resolved(conn.password),
       credentials |-> Resolved(conn.credentials)] = connection(u)
  BY <1>3, <1>4, <1>5, <1>6
<1> QED  BY <1>7 DEF conn

LEMMA TwoConnections ==
    ASSUME NEW f, NEW a, NEW b, f = [c \in {"source", "target"} |-> f[c]],
           f["source"] = a, f["target"] = b
    PROVE  f = [source |-> a, target |-> b]
  OBVIOUS

LEMMA GeneratedResolves ==
    ASSUME NEW s, NEW t,
           connection(s).password \in {NONE, Held["CDCANARY_SOURCE_PASSWORD"]},
           connection(t).password \in {NONE, Held["CDCANARY_TARGET_PASSWORD"]}
    PROVE  [_resolve_env(Generated(s, t)) EXCEPT !.slack_webhook = NONE]
               = _scan_config(s, t)
<1> DEFINE raw == Generated(s, t)
           res == _resolve_env(raw)
<1>1. raw.pairs = <<SchemaPair(s, t)>>
      /\ DOMAIN raw.connections = {"source", "target"}
      /\ raw.connections["source"] = Placeheld(connection(s), "CDCANARY_SOURCE_PASSWORD")
      /\ raw.connections["target"] = Placeheld(connection(t), "CDCANARY_TARGET_PASSWORD")
  BY DEF Generated
<1>2. WellFormed(raw)
  BY GeneratedShape
<1> HIDE DEF raw
<1>3. PICK conns :
        /\ res = [connections |-> conns, pairs |-> raw.pairs,
                  slack_webhook |-> Resolved(raw.slack_webhook)]
        /\ conns = [c \in DOMAIN raw.connections |-> conns[c]]
        /\ \A c \in DOMAIN raw.connections :
              conns[c] = [type |-> raw.connections[c].type,
                          host |-> raw.connections[c].host,
                          database |-> raw.connections[c].database,
                          password |-> Resolved(raw.connections[c].password),
                          credentials |-> Resolved(raw.connections[c].credentials)]
  BY <1>2, ResolvedShape, Zenon
<1> HIDE DEF res
<1>4. conns["source"] = connection(s)
  <2>1. conns["source"] =
           [type |-> raw.connections["source"].type,
            host |-> raw.connections["source"].host,
            database |-> raw.connections["source"].database,
            password |-> Resolved(raw.connections["source"].password),
            credentials |-> Resolved(raw.connections["source"].credentials)]
    BY <1>1, <1>3, Zenon
  <2> QED  BY <1>1, <2>1, URLAssumption, PlaceheldResolves
<1>5. conns["target"] = connection(t)
  <2>1. conns["target"] =
           [type |-> raw.connections["target"].type,
            host |-> raw.connections["target"].host,
            database |-> raw.connections["target"].database,
            password |-> Resolved(raw.connections["target"].password),
            credentials |-> Resolved(raw.connections["target"].credentials)]
    BY <1>1, <1>3, Zenon
  <2> QED  BY <1>1, <2>1, URLAssumption, PlaceheldResolves
<1>6. conns = [source |-> connection(s), target |-> connection(t)]
  <2>1. conns = [c \in {"source", "target"} |-> conns[c]]
    BY <1>1, <1>3, Zenon
  <2> QED  BY <1>4, <1>5, <2>1, TwoConnections
<1>7. [res EXCEPT !.slack_webhook = NONE] =
         [connections |-> conns, pairs |-> raw.pairs, slack_webhook |-> NONE]
  BY <1>3
<1>8. [res EXCEPT !.slack_webhook = NONE] = _scan_config(s, t)
  BY <1>1, <1>6, <1>7 DEF _scan_config
<1> QED  BY <1>8 DEF res, raw

-----------------------------------------------------------------------------
(* The inductive invariant                                                  *)

\* A process that has not started has loaded nothing; one that writes has
\* passed the tests of its URLs.
PlaceOK ==
    /\ DOMAIN cfg = Procs
    /\ \A p \in Procs : pc[p] = "start" => from[p] = NONE
    /\ \A p \in Procs : pc[p] = "writing" => ~BadURLs(cmd[p])

\* What is in the file while a process owns it.
OwnerOK ==
    owner \in Procs => /\ ~BadURLs(cmd[owner])
                       /\ cmd[owner].discover =>
                             file = Generated(cmd[owner].source, cmd[owner].target)

LoadingInv == TypeOK /\ PlaceOK /\ OwnerOK

LEMMA CommandFields ==
    ASSUME NEW c \in Commands
    PROVE  /\ c.discover \in BOOLEAN
           /\ c.discover => c.source \in Sources \cup {NONE} /\ c.target \in Targets
           /\ c.name = "scan" => c.source \in Sources /\ c.target \in Targets
           /\ c.name = "scan" => ~c.discover
<1> DEFINE Discover(s, t) == Command("init", TRUE, s, t, {})
           Scanning(s, t) == Command("scan", FALSE, s, t, {})
           Checking(V) == Command("check", FALSE, NONE, NONE, V)
           Discovers == {Discover(s, t) : s \in Sources \cup {NONE}, t \in Targets}
           Scans == {Scanning(s, t) : s \in Sources, t \in Targets}
           Checks == {Checking(V) : V \in Environs}
<1>1. CASE c = Command("init", FALSE, NONE, NONE, {})
  BY <1>1 DEF Command
<1>2. CASE c \in Discovers
  <2> HIDE DEF Discover
  <2>1. PICK s \in Sources \cup {NONE}, t \in Targets : c = Discover(s, t)
    BY <1>2
  <2> QED  BY <2>1 DEF Discover, Command
<1>3. CASE c \in Scans
  <2> HIDE DEF Scanning
  <2>1. PICK s \in Sources, t \in Targets : c = Scanning(s, t)
    BY <1>3
  <2> QED  BY <2>1 DEF Scanning, Command
<1>4. CASE c \in Checks
  <2> HIDE DEF Checking
  <2>1. PICK V \in Environs : c = Checking(V)
    BY <1>4
  <2> QED  BY <2>1 DEF Checking, Command
<1>5. Commands = {Command("init", FALSE, NONE, NONE, {})}
                 \cup Discovers \cup Scans \cup Checks
  BY DEF Commands
<1> HIDE DEF Discovers, Scans, Checks
<1>6. \/ c = Command("init", FALSE, NONE, NONE, {})
      \/ c \in Discovers \/ c \in Scans \/ c \in Checks
  BY <1>5
<1> QED  BY <1>1, <1>2, <1>3, <1>4, <1>6

LEMMA DiscoverAccepted ==
    ASSUME NEW c \in Commands, c.discover, ~BadURLs(c)
    PROVE  c.source \in Accepted(Sources) /\ c.target \in Accepted(Targets)
  BY CommandFields DEF BadURLs, Accepted

LEMMA FileKnown ==
    ASSUME TypeOK, file \notin {NONE, Truncated}
    PROVE  file \in HandWritten \cup Writable
  BY DiscoverAccepted DEF TypeOK, Writable

LEMMA FileWellFormed ==
    ASSUME TypeOK, file \notin {NONE, Truncated}
    PROVE  WellFormed(file)
  BY FileKnown, HandWrittenAssumption, ExampleShape, GeneratedShape DEF Writable

LEMMA LoadedSomething ==
    ASSUME TypeOK, NEW p \in Procs, Loads(p)
    PROVE  _resolve_env(file) # NONE
  BY FileKnown, NoneAssumption DEF Loads

LEMMA LoadingInit == Init => LoadingInv
  BY LoadingAssumption DEF Init, LoadingInv, TypeOK, PlaceOK, OwnerOK, Owners

LEMMA SavesKeepsInv ==
    ASSUME LoadingInv, NEW raw \in HandWritten, Saves(raw), UNCHANGED cmd
    PROVE  LoadingInv'
  BY LoadingAssumption
     DEF LoadingInv, TypeOK, PlaceOK, OwnerOK, Owners, Operator, Saves

LEMMA ScanKeepsInv ==
    ASSUME LoadingInv, NEW p \in Procs, Scan(p), UNCHANGED cmd
    PROVE  LoadingInv'
<1>1. cmd[p] \in Commands /\ pc[p] = "start"
  BY DEF LoadingInv, TypeOK, Scan
<1>2. CASE Rejected(cmd[p].source) \/ Rejected(cmd[p].target)
  BY <1>1, <1>2
     DEF LoadingInv, TypeOK, PlaceOK, OwnerOK, Scan, Ends, history
<1>3. CASE ~(Rejected(cmd[p].source) \/ Rejected(cmd[p].target))
  <2>1. _scan_config(cmd[p].source, cmd[p].target) # NONE
    BY <1>1, <1>3, CommandFields, NoneAssumption DEF Accepted, Scan
  <2>2. /\ pc' = [pc EXCEPT ![p] = "runs"]
        /\ cfg' = [cfg EXCEPT ![p] = _scan_config(cmd[p].source, cmd[p].target)]
        /\ UNCHANGED <<file, owner, from, cmd>>
    BY <1>3 DEF Scan, Ends, history
  <2> QED  BY <1>1, <2>1, <2>2 DEF LoadingInv, TypeOK, PlaceOK, OwnerOK
<1> QED  BY <1>2, <1>3

LEMMA InitKeepsInv ==
    ASSUME LoadingInv, NEW p \in Procs, UNCHANGED cmd,
           InitTests(p) \/ InitRejects(p) \/ InitOpens(p) \/ Killed(p)
    PROVE  LoadingInv'
<1>1. CASE InitTests(p) \/ InitRejects(p) \/ Killed(p)
  <2>1. /\ UNCHANGED <<file, cfg, owner, from>>
        /\ \E how \in {"absent", "refused", "killed"} :
              pc' = [pc EXCEPT ![p] = how]
        /\ pc[p] # "runs"
    BY <1>1 DEF InitTests, InitRejects, Killed, Ends, history
  <2> QED  BY <2>1 DEF LoadingInv, TypeOK, PlaceOK, OwnerOK
<1>2. CASE InitOpens(p)
  <2>1. NONE \notin Procs
    BY LoadingAssumption
  <2> QED  BY <1>2, <2>1
              DEF LoadingInv, TypeOK, PlaceOK, OwnerOK, Owners, InitOpens, Ends
<1> QED  BY <1>1, <1>2

LEMMA InitWritesKeepsInv ==
    ASSUME LoadingInv, NEW p \in Procs, InitWrites(p), UNCHANGED cmd
    PROVE  LoadingInv'
<1>1. cmd[p] \in Commands /\ cmd[p].discover \in BOOLEAN /\ ~BadURLs(cmd[p])
  BY CommandFields DEF LoadingInv, TypeOK, PlaceOK, InitWrites
<1>2. /\ pc[p] = "writing" /\ pc' = [pc EXCEPT ![p] = "wrote"]
      /\ file' = IF cmd[p].discover THEN Generated(cmd[p].source, cmd[p].target)
                 ELSE EXAMPLE_CONFIG
      /\ owner' = p /\ UNCHANGED <<cfg, from, cmd>>
  BY DEF InitWrites, Ends
<1> QED  BY <1>1, <1>2 DEF LoadingInv, TypeOK, PlaceOK, OwnerOK, Owners

LEMMA CheckLoadsKeepsInv ==
    ASSUME LoadingInv, NEW p \in Procs, CheckLoads(p), UNCHANGED cmd
    PROVE  LoadingInv'
<1>1. /\ pc[p] = "start" /\ UNCHANGED <<file, owner, cmd>>
      /\ from' = [from EXCEPT ![p] = owner]
  BY DEF CheckLoads
<1>2. CASE Loads(p)
  <2>1. /\ pc' = [pc EXCEPT ![p] = "runs"]
        /\ cfg' = [cfg EXCEPT ![p] = _resolve_env(file)]
    BY <1>2 DEF CheckLoads, Ends
  <2>2. _resolve_env(file) # NONE
    BY <1>2, LoadedSomething DEF LoadingInv
  <2> QED  BY <1>1, <2>1, <2>2 DEF LoadingInv, TypeOK, PlaceOK, OwnerOK
<1>3. CASE ~Loads(p)
  <2>1. pc' = [pc EXCEPT ![p] = "refused"] /\ UNCHANGED cfg
    BY <1>3 DEF CheckLoads, Ends
  <2> QED  BY <1>1, <2>1 DEF LoadingInv, TypeOK, PlaceOK, OwnerOK
<1> QED  BY <1>2, <1>3

LEMMA LoadingStep == LoadingInv /\ [Next]_vars => LoadingInv'
<1> SUFFICES ASSUME LoadingInv, [Next]_vars  PROVE LoadingInv'
  OBVIOUS
<1>1. CASE UNCHANGED vars
  BY <1>1 DEF vars, history, LoadingInv, TypeOK, PlaceOK, OwnerOK
<1>2. ASSUME NEW raw \in HandWritten, Saves(raw), UNCHANGED cmd  PROVE LoadingInv'
  BY <1>2, SavesKeepsInv
<1>3. ASSUME NEW p \in Procs, Process(p), UNCHANGED cmd  PROVE LoadingInv'
  BY <1>3, ScanKeepsInv, InitKeepsInv, InitWritesKeepsInv, CheckLoadsKeepsInv
     DEF Process
<1> QED  BY <1>1, <1>2, <1>3 DEF Next

\* The file, the commands and what they loaded are always well typed: a process
\* goes on with a configuration exactly if it came to run checks, and the file
\* holds nothing but what init writes and operators save.
THEOREM LoadingTypes == Spec => []TypeOK
<1>1. LoadingInv => TypeOK
  BY DEF LoadingInv
<1> QED  BY <1>1, LoadingInit, LoadingStep, PTL DEF Spec

LEMMA LoadingInvariant == Spec => []LoadingInv
  BY LoadingInit, LoadingStep, PTL DEF Spec

\* "never write secrets to disk": whatever URLs init is given, whoever else
\* writes the file and whenever a process is killed, no secret is in the file,
\* provided that operators put none there themselves.
THEOREM NoSecretTheorem == Spec => []NoSecretOnDisk
<1>1. TypeOK => NoSecretOnDisk
  BY HandWrittenAssumption, ExampleSafe, GeneratedSafe DEF TypeOK, NoSecretOnDisk
<1> QED  BY <1>1, LoadingTypes, PTL

-----------------------------------------------------------------------------
(* What a process goes on with                                              *)

\* The configuration of a process comes from the URLs of scan or from the file.
LEMMA CfgStep ==
    ASSUME LoadingInv, [Next]_vars, NEW p \in Procs
    PROVE  /\ cmd' = cmd
           /\ \/ cfg'[p] = cfg[p] /\ from'[p] = from[p]
              \/ cfg'[p] = NONE
              \/ /\ cmd[p].source \in Accepted(Sources)
                 /\ cmd[p].target \in Accepted(Targets)
                 /\ cfg'[p] = _scan_config(cmd[p].source, cmd[p].target)
                 /\ from'[p] = NONE
              \/ Loads(p) /\ cfg'[p] = _resolve_env(file) /\ from'[p] = owner
<1>0. DOMAIN cfg = Procs /\ DOMAIN from = Procs
  BY DEF LoadingInv, TypeOK, PlaceOK
<1>1. CASE UNCHANGED vars \/ \E raw \in HandWritten : Saves(raw) /\ UNCHANGED cmd
  BY <1>1 DEF vars, history, Saves
<1>2. ASSUME NEW q \in Procs, Process(q), UNCHANGED cmd,
             ~(UNCHANGED <<cfg, from>>), p = q
      PROVE  \/ cfg'[p] = NONE
             \/ /\ cmd[p].source \in Accepted(Sources)
                /\ cmd[p].target \in Accepted(Targets)
                /\ cfg'[p] = _scan_config(cmd[p].source, cmd[p].target)
                /\ from'[p] = NONE
             \/ Loads(p) /\ cfg'[p] = _resolve_env(file) /\ from'[p] = owner
  <2>1. CASE Scan(p)
    <3>1. /\ cmd[p] \in Commands /\ cmd[p].name = "scan"
          /\ from'[p] = NONE
      BY <2>1 DEF LoadingInv, TypeOK, PlaceOK, Scan, history
    <3>2. ~(Rejected(cmd[p].source) \/ Rejected(cmd[p].target))
      BY <1>2, <2>1 DEF Scan, history
    <3>3. cfg' = [cfg EXCEPT ![p] = _scan_config(cmd[p].source, cmd[p].target)]
      BY <2>1, <3>2 DEF Scan
    <3> QED  BY <1>0, <3>1, <3>2, <3>3, CommandFields DEF Accepted
  <2>2. CASE CheckLoads(p)
    <3>1. from' = [from EXCEPT ![p] = owner] /\ pc[p] = "start"
      BY <2>2 DEF CheckLoads
    <3>2. CASE Loads(p)
      BY <1>0, <2>2, <3>1, <3>2 DEF CheckLoads
    <3>3. CASE ~Loads(p)
      BY <2>2, <3>1, <3>3 DEF CheckLoads, LoadingInv, TypeOK
    <3> QED  BY <3>2, <3>3
  <2> QED  BY <1>2, <2>1, <2>2
           DEF Process, InitTests, InitRejects, InitOpens, InitWrites, Killed, history
<1>3. ASSUME NEW q \in Procs, Process(q), UNCHANGED cmd, p # q
      PROVE  cfg'[p] = cfg[p] /\ from'[p] = from[p]
  BY <1>0, <1>3
     DEF Process, Scan, InitTests, InitRejects, InitOpens, InitWrites, CheckLoads,
         Killed, history
<1> QED  BY <1>1, <1>2, <1>3 DEF Next

\* Whatever was loaded or made can be run.
RunsOK == \A p \in Procs : cfg[p] # NONE => Runnable(cfg[p])

LEMMA FileRuns ==
    ASSUME TypeOK, NEW p \in Procs, Loads(p)
    PROVE  Runnable(_resolve_env(file))
<1>1. WellFormed(file) /\ ~Invalid(_resolve_env(file))
  BY FileKnown, FileWellFormed DEF Loads
<1> QED  BY <1>1, LoadedRuns

\* Every configuration that scan makes or check accepts has both connections of
\* each pair and no placeholder left, and every pair names what the runner asks
\* of it and has checks to run, but for two tables with an empty schema beside
\* the source's: whatever an operator saves.
THEOREM RunnableTheorem == Spec => []RunnableUnlessNameless
<1>1. Init => RunsOK
  BY DEF Init, RunsOK
<1>2. ASSUME LoadingInv, RunsOK, [Next]_vars
      PROVE  RunsOK'
  <2>1. ASSUME NEW p \in Procs, cfg'[p] # NONE
        PROVE  Runnable(cfg'[p])
    BY <1>2, <2>1, CfgStep, ScanRuns, FileRuns DEF RunsOK, LoadingInv
  <2> QED  BY <2>1 DEF RunsOK, Runnable
<1>3. RunsOK => RunnableUnlessNameless
  BY DEF RunsOK, Runnable, PairOK, Running, RunnableUnlessNameless
<1>4. Spec => []LoadingInv
  BY LoadingInvariant
<1> QED  BY <1>1, <1>2, <1>3, <1>4, PTL DEF Spec

\* init --discover and check amount to scan: with the passwords in the
\* environment under the names init chose, check goes on with exactly the
\* connections and pairs that scan makes of the same URLs, however many
\* processes write and load the file meanwhile.
THEOREM RoundTripTheorem == Spec => []RoundTrip
<1>1. Init => RoundTrip
  BY DEF Init, RoundTrip
<1>2. ASSUME LoadingInv, RoundTrip, [Next]_vars
      PROVE  RoundTrip'
  <2>1. ASSUME NEW p \in Procs, NEW q \in Procs, q = from'[p], cfg'[p] # NONE,
               cmd'[q].discover, KnowsPasswords(cmd'[q])
        PROVE  [cfg'[p] EXCEPT !.slack_webhook = NONE]
                   = _scan_config(cmd'[q].source, cmd'[q].target)
    <3>0. cmd' = cmd /\ NONE \notin Procs
      BY <1>2, CfgStep, LoadingAssumption
    <3>1. CASE cfg'[p] = cfg[p] /\ from'[p] = from[p]
      BY <1>2, <2>1, <3>0, <3>1 DEF RoundTrip
    <3>2. CASE Loads(p) /\ cfg'[p] = _resolve_env(file) /\ from'[p] = owner
      <4>1. file = Generated(cmd[q].source, cmd[q].target)
        BY <1>2, <2>1, <3>0, <3>2 DEF LoadingInv, OwnerOK
      <4>2. /\ connection(cmd[q].source).password
                   \in {NONE, Held["CDCANARY_SOURCE_PASSWORD"]}
            /\ connection(cmd[q].target).password
                   \in {NONE, Held["CDCANARY_TARGET_PASSWORD"]}
        BY <2>1, <3>0 DEF KnowsPasswords, connection
      <4> QED  BY <3>0, <3>2, <4>1, <4>2, GeneratedResolves
    <3> QED  BY <1>2, <2>1, <3>0, <3>1, <3>2, CfgStep
  <2> QED  BY <2>1 DEF RoundTrip, KnowsPasswords
<1>3. Spec => []LoadingInv
  BY LoadingInvariant
<1> QED  BY <1>1, <1>2, <1>3, PTL DEF Spec
=============================================================================
