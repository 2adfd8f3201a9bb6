# cdcanary in TLA+

cdcanary compares a source database with the replica a CDC pipe feeds, from
cron, and speaks through an exit code, a report and a Slack message. This
directory holds TLA+ modules of that program, TLC configurations that
model-check them on small instances, and TLAPS proofs of their main properties
for every value of the constants. Paths below are relative to `src/cdcanary/`.

## 1. The system

| Part | State it keeps | Operations | What can go wrong |
|---|---|---|---|
| runner (`runner.py`) | results so far, the pair's two sessions, the position in three nested loops | `run`, `run_pair`, `_run_schema_pair`, `_run_checks`, `worst_status` | a failure in the middle of a pair loses or duplicates results; sessions leak; errors spread; a close fails too |
| command (`cli.py`) | the loaded configuration, results, exit code | `check`, `scan` | printing, alerting or loading fails; the exit code says something else than the report |
| `init` (`cli.py`) | the file `cdcanary.yml`, which other processes read and write | `init` | killed half-way, two writers, a password on disk |
| statuses (`checks/base.py`) | – | `Status.exit_code`, `CheckResult` | order of severity, code per status |
| alert (`alert/slack.py`) | – | `send` | silence on a warning, noise on green, failure hiding the report |
| `sampled_checksum` | key, columns and strategy, sampled keys, rows of both sides | `run`, `_draw_sample`, `values_equal` | schemas and tables change between its queries, snapshots are old, old rows are never sampled, equal data comes back unequal |
| `freshness`, `row_delta`, `null_rate`, `schema_drift` | what the queries so far returned | `run` | each side is read at another moment; numeric edges; naive against aware times |
| override rules (`config.py`) | the merged options, the rename template | `checks_for`, `target_table_for` | precedence of three or more rules, `False` against "no options" |
| configuration loading (`config.py`, `urls.py`) | the environment | `load`, `from_dict`, `_parse_pair`, `_resolve_env`, `parse` | a half-valid configuration, secrets at the wrong place |
| adapters (`adapters/*.py`) | a connection and its transaction | `connect`, `close`, the queries, the coarse types | aborted transactions, lost sessions, missing timeouts, pinned snapshots, what a user may see |

The command calls the loader, the runner, the alert, in this order, on one
thread. The runner opens two adapters per pair and hands both to each check in
turn, so checks of a pair share two sessions, and what one check does to a
session the next one inherits. Between two runs only the file is kept.
Concurrency comes from outside: the databases change while they are read,
servers reject statements and drop sessions, several commands and an operator
use one configuration file, and a scheduler may kill a process at any time.

## 2. Modules

| Module | Models | Correspondence |
|---|---|---|
| `Status` | `Status`, `exit_code`, `worst_status` | operators with the code's names |
| `Runner` | `check`/`scan` from loading to exit | `phase` is the program counter; `found` is the list local to `run_pair`, `results` the one of `run`; `session` the two adapters; an action per statement that calls out or branches |
| `CronContract` | what the scheduler may rely on, without pairs or checks | refined by `Runner` |
| `Overrides` | the loops of `checks_for` and `target_table_for` | one rule per step; `merged` and `template` are the loop variables |
| `Loading` | `urls.parse`, config loading, and `init`, `scan`, `check` up to where checks run | `file` is shared by the processes; `pc[p]` is where each command is; opening (truncating) and writing are two steps |
| `Replication` | the environment: two tables and the pipe | not this repository's code: late, in order, lossy, garbling |
| `Sessions` | what a query of either adapter sees of tables that change | `view` is the snapshot a session is pinned to; `touched` is history |
| `Types` | the `_COARSE` tables of the adapters | `Coarse` is the lookup |
| `Percent` | "part / whole * 100 <= limit" in floating point | exact away from equality; at equality either outcome |
| `Sampling` | `_draw_sample`, `sample_keys`, `sample_keys_spread` | pure operators over a finite set of keys |
| `Coverage` | many runs of the sampling over one changing table | a run is one call of `_draw_sample` with some remainder |
| `Selection` | choice of key, columns and strategy of `sampled_checksum` | one step per query |
| `Checksum` | the rest of `SampledChecksumCheck.run` | `pc` names the next query |
| `Values` | `values_equal`, and what the drivers return for a column | a cell is the datum the application means, `Value` the Python object for it |
| `Freshness`, `RowDelta`, `NullRate`, `SchemaDrift` | the other four checks | one step per query, `status` the verdict |
| `Checks` | `Freshness`, `RowDelta`, `NullRate`, `SchemaDrift`, `Selection` and `Values` side by side | `which` says whose behaviour this is |
| `RunnerProofs`, `SamplingProofs`, `CoverageProofs`, `ChecksumProofs`, `ChecksProofs`, `OverridesProofs`, `LoadingProofs` | theorems | section 5 |
| `MCRunner`, `MCCoverage`, `MCChecksum`, `MCChecks`, `MCOverrides`, `MCLoading` | instances for TLC | section 3 |

`Sessions` extends `Replication`; `Checksum`, `Freshness`, `RowDelta`,
`NullRate`, `SchemaDrift` and `Selection` extend `Sessions`, and with it share
the tables, the pipe and the pinned snapshots; `Checksum` and `Coverage` extend
`Sampling`; `Runner` extends `Status` and instantiates `CronContract`.
`Checks` instantiates the single-table checks with shared tables, sessions and
pipe; each wrapper `which = "x" => X!P` states the module's property `P`, and
the variables of the checks that do not run hold `NONE`. `sampled_checksum` takes
part in it up to its draw (`Selection`) and with the comparison of a cell
(`Values`, which needs no table); what lies between is `Checksum`. `Sessions`
also holds the lemmas about snapshots that every check relies on. A definition whose name differs from the code's and that
stands directly before the definition it resembles (`ByHand` before
`Outward`, `Oldest` before `max_timestamp`, ...) is a mutant of that
definition: a plausible bug that some property must catch. No specification
uses it.

Abstractions worth knowing:

- Loops over pairs, tables and checks take their elements in any order in
  `Runner`. The code has one order, so this only adds behaviours. Names of
  pairs are taken to be unique, as are table names of a schema.
- In `Runner`, what a check concludes from data is a choice among the statuses
  its code can return (`Verdicts`), except that `schema_drift` of a table whose
  target lacks a column is FAIL and that a check whose query names the missing
  column is rejected by the engine. A check may also raise of itself, for
  options that do not convert or an aware and a naive time to subtract
  (`CheckRaises`); `Raising` says for which tables. How the data leads to a verdict
  is the subject of the modules of the checks.
- The two `with` clauses of `run_pair` are two steps, the target's first
  (`Close`). Either `close()` may raise, also in place of an exception already on
  its way, and the session it was to end may stay open at its server (kind
  "leak" of an incident). `incidents` is a history variable: what went wrong
  under the run, with pair, table, check and side.
- A pattern list is the set of tables it selects (`Wanted`, `matches`); a rename
  template is the name it expands to (`Target`, `Templates`). `BadRule` is the
  set of tables for which `checks_for` raises, as it does for options that are
  neither a mapping, `None` nor `False`.
- psycopg opens a transaction with the first statement; after a rejected
  statement everything on that session fails until a rollback, which the
  adapter never issues (`AfterRejection`). pymysql and BigQuery stay usable.
- pymysql runs without autocommit and InnoDB reads at REPEATABLE READ, so a
  MySQL session sees the state of its first read (`Pinned`). psycopg reads at
  READ COMMITTED and BigQuery per statement. `information_schema` is read afresh
  by every query.
- In `SchemaDrift` and `Selection`, `Replication` is read one level up: its
  "rows" are columns, the contents their types, a write is an `ALTER TABLE`, and
  the pipe is the connector that carries schema changes over, or does not. In
  `NullRate` a row is the set of its columns that are NULL; in `Freshness` it is
  its time stamp, and there is a clock.
- In `Checksum` and `Coverage` the key is the integer primary key and a row's
  compared columns are one value. The fallback to `recent` for other keys is
  strategy `recent`. The remainder class follows SQL's `MOD`, whose sign is the
  dividend's.
- In `Loading` a URL is its scheme, host, path parts and password; of an
  override only the keys it has matter. Two writers at the same instant are
  taken to replace each other's text as a whole.
- `Kill` and `QueryHangs` stand for the scheduler and for a server that does not
  answer. MySQL has `read_timeout`; BigQuery ends jobs by itself; PostgreSQL has
  neither here.

## 3. Runs

`tlc -config X.cfg M` in this directory.

| Run | Checks | Shows |
|---|---|---|
| `MCRunner.cfg` | `TypeOK`, `NothingLost`, `GreenIsEarned`, `KeepsContract`, `OnlyPostgresHangs` | nothing owed goes missing whatever fails, 0 is earned, the run implements `CronContract`: what is printed, told and returned belongs together; and under fairness of the thread only a PostgreSQL query keeps it from ending |
| `MCRunnerErrors.cfg` | `SessionsReleased`, `MissingColumnIsFail`, `ErrorsStayLocal` | no session outlives its pair through either `with`, errors stay where they arose |
| `MCRunnerPgColumn.cfg` | `MissingColumnIsFail` (violated) | finding 3 |
| `MCRunnerExitOne.cfg` | `OneMeansWarnings` (violated) | finding 2 |
| `MCCoverage.cfg` | `WalksEvenTables` | the rotating spread walks every gap-free table whose size it divides |
| `MCCoverageWhole.cfg` | `WalksWholeTable` (violated) | finding 1 |
| `MCChecksum.cfg` | `TypeOK`, `ExactOnQuietRows`, `DriftInWindowIsFail`, `SampledRowsFetched`, `EmptyMeansEmpty`, `SampleInBudget` | the verdict is right about every row nobody touched, although nothing synchronises the two sides and one of them may answer from an old snapshot |
| `MCOverrides.cfg` | `TypeOK`, `LaterRulesWin`, `RunsUnlessDisabled`, `LastRenameWins` | precedence in every order of three rules |
| `MCChecks.cfg` | `TypeOK` and, of `Freshness`: `AlarmHasACause`, `DeadConnectorIsNoticed`; of `RowDelta`: `RowDeltaIsHonest`; of `NullRate`: `NullCorruptionIsNoticed`, `NullAlarmHasACause`; of `SchemaDrift`: `LateColumnIsFail`, `MigrationIsFail`, `DriftAlarmHasACause`; of `Selection`: `PrimaryKeyIsUsed`, `SharedColumnsCompared`, `SpreadOnlyOnIntegers`; of `Values`: `FaithfulCopyIsSame`, `DriftIsSeen`, `Symmetric` | what a verdict is worth when its queries belong to different moments; and, for every pair of column types listed there, a faithful copy of a cell is no drift, and drift beyond the tolerance is seen |
| `MCChecksDialect.cfg` | `NoDialectNoise` (violated) | finding 5 |
| `MCChecksGrant.cfg` | `PrimaryKeyIsUsed` (violated) | finding 4 |
| `MCLoading.cfg` | `TypeOK`, `NoSecretOnDisk`, `RoundTrip`, `RunnableUnlessNameless` | init followed by check amounts to scan, no secret reaches the file, and of what loads only one shape of pair cannot be run, whoever else writes the file |

Bounds, and why they suffice for what they show:

- `MCRunner`: two pairs, so that one can fail before and after the other. The
  schema pair (PostgreSQL to MySQL) has two tables renamed to each other: the
  target of one lacks a column, but its check names none, so it can be green; the
  other has a rule that raises. The table pair goes from MySQL to BigQuery, and
  its check may raise of itself. `MCRunnerErrors` has no such rule, but a table
  with two checks, of which one names the missing column, and a table with a
  check that may raise and one that is unregistered, so that an error has a
  predecessor and a successor on its sessions. Finding 3 has PostgreSQL as a
  target, and as a source.
- `MCCoverage`: keys 0..7, sample of 4, so the spread gets 2 keys of classes of
  up to 4. `MaxChanges` bounds inserts and deletes: 1 where walking is shown,
  because every change only starts the walk anew, 2 for the counterexample.
- `MCChecksum`: three keys and two contents, sample of 2 (one newest, one spread).
  All initial tables are tried, so drift may be old. `MaxWrites` bounds changes
  at the source: 2 with a MySQL source, 1 with a MySQL target (`mysql` chooses).
  `Vals` is a symmetry set: the module never names a value and the properties
  are invariants.
- `MCOverrides`: one check, two options, three rules. Checks do not influence each
  other in the loops.
- `MCChecks`: two or three rows, at most two writes (one for `null_rate`,
  `schema_drift` and `Selection`, whose initial states already hold every
  disagreement). Freshness has a clock of 0..2 with `WarnLag` 0 and `MaxLag` 1,
  so each verdict occurs, and tables with and without a time stamp column.
  row_delta has rows inside and outside the `where` window and a tolerance of
  40, between one row of three and one of two; null_rate likewise. Schema checks
  run in all nine directions between the engines; `Selection` with six option
  sets, among them an unknown strategy, an explicit key and explicit columns.
  The comparison of a cell has numbers in units of which 10 make 1, so that a
  flag, a difference below and one above the tolerance exist, two moments,
  sessions in UTC and not, and every pair of column types that come back alike
  (`PlainPairs`). `schema_drift` has two types the adapters agree about, and in
  `MCChecksDialect` a BOOLEAN in place of one of them.
- `MCLoading`: two processes; three source and three target URLs (with and
  without a password, refused by either test); environments complete, empty and
  lacking one variable. An operator saves one pair whose two endpoints have any of
  eight shapes (a table, a schema, both, an empty table, an empty schema, an empty
  schema beside a table, an unknown connection, none at all), or lacks checks,
  defaults, keys of an override, pairs or connections.

`CHECK_DEADLOCK FALSE` stands where the modelled call returns (`Checksum`,
the checks, `Overrides`, `Loading`). A finished command stutters
through `Terminated`.

### Fairness

`Runner!FairSpec` is weak fairness of `Command`: one thread that keeps running
while a statement can be executed. `Kill` and `QueryHangs` are not fair; a hung
query is a state in which no `Command` step is possible. `Coverage!FairSpec` is
strong fairness of each remainder: `random.randrange` draws uniformly and
independently of earlier runs, so with probability one each remainder that stays
possible recurs. It says nothing about how soon. The other modules are checked
for safety only: one check is a bounded sequence of queries, and that a sequence
of queries ends is a matter of `Runner`.

## 4. Findings

1. *The spread does not walk the whole table.* `sampled_checksum.py:24`,
   `adapters/base.py:94` and the README's roadmap say that repeated runs do.
   Each run takes only the newest `n_spread` keys of its remainder class; a
   class that is larger, because the row count is no multiple of the spread or
   the keys have gaps, hides its oldest rows from every run.
2. *Exit code 1 is not only for warnings.* `cli.py:8` states the contract and the
   example workflow turns 1 into a green build. A configuration that cannot be
   loaded, or a report that cannot be printed, ends with 1 as well (`cli.py:192`).
3. *On PostgreSQL a missing column can end as ERROR.* A check that names the
   column aborts the transaction, and `schema_drift` of the same table, the
   check that exists to report it, fails for that reason alone
   (`postgres.py:41`).
4. *A read-only user makes sampled_checksum skip every PostgreSQL source.*
   `information_schema.table_constraints` lists the constraints of a table to
   its owner and to users with more than SELECT on it; for others there is no
   primary key, and the table is skipped with status ok (`postgres.py:84`).
5. *The same type can come out as two* (`mysql.py:10`): `adapters/base.py:11` promises
   no "dialect noise", but MySQL reports a BOOLEAN as `tinyint`, so a faithful copy in
   another engine fails `schema_drift`. PostgreSQL's `USER-DEFINED` for an
   enumeration has the same effect. `DriftAlarmHasACause` states what an alarm is
   worth: of each column named, the sides did report different things.

Divergences without a run of their own. The models show or contain each of
them; the properties are stated around them, and the hazards of PROJECT.json
refer to this list.

- *A PostgreSQL query can hang the command* (`postgres.py:35`): `timeout_s` becomes
  `connect_timeout`, which does not bound queries. `OnlyPostgresHangs` says that
  nothing else does.
- *A report that cannot be printed takes the alert with it* (`cli.py:195`). The tool
  "pings Slack when they disagree"; printing comes first and is not guarded, while the
  alert's own failure is. With stdout closed or an encoding that lacks the
  report's symbols nobody is told. `CronContract` therefore promises an alert of a
  printed report only.
- *`False` in `defaults` does not disable a check* (`config.py:71`), although
  `checks_for` says so of any check value: `dict(v or {})` makes it a check without
  options. `RunsUnlessDisabled` is therefore stated of checks that the defaults do not
  disable or a rule speaks of.
- *A pair with `schema: ""` beside a table* is validated as a table pair
  (`config.py:130` asks whether the name is true) and run as a schema pair
  (`config.py:62` asks whether it is None). Such pairs are among those of
  `MCLoading`, and `RunnableUnlessNameless` says that no other pair that cannot be
  run is loaded.
- *freshness measures the distance of two stamps, not the age of the lag*
  (`freshness.py:62`). After a quiet time the first row, a moment on its way, has
  a lag as long as the quiet time was. `AlarmHasACause` therefore accepts any
  change on its way as the cause of an alarm.
- *A pinned MySQL target is blamed for rows it has* (`freshness.py:49`): it
  answers from the snapshot an earlier check of the pair took. `AlarmHasACause`
  is checked with MySQL as the source.
- *Aware minus naive raises* (`freshness.py:58`): psycopg returns aware moments for
  `timestamp with time zone`, the other adapters naive ones, so such a pair has
  an ERROR on every run (`Comparable`).
- *Unchanged `uuid`, `money` and `jsonb` values are reported*
  (`sampled_checksum.py:78`): their Python classes differ from what the other
  drivers return; and beside a float, texts that look like the number count as
  the same. `PlainPairs` of `MCChecks` pairs the other types, and `PlainDrivers` and
  `FloatsAmongNumbers` in `ChecksProofs` say which they are.
- *An empty remainder class is reported as "source table empty"*, OK, under
  strategy `spread` (`sampled_checksum.py:136`). `EmptyMeansEmpty` is checked, and
  proved, where newest rows are sampled too.
- *`init` overwrites a file saved between its test and its write* (`cli.py:146`).
- *The next step `init --discover` prints does not work as printed*
  (`cli.py:175`): the configuration it writes needs `CDCANARY_SLACK_WEBHOOK` in the
  environment before `check` loads it.
- *BigQuery credentials are set once* (`bigquery.py:31`): `setdefault` on the
  process environment makes a second connection use the first one's.

## 5. Proofs

`tlapm M.tla` checks each module. Assumptions are those the modules state about
their constants (`RunnerAssumption`, `CoverageAssumption`,
`ReplicationAssumption`, `SessionsAssumption`, `ChecksumAssumption`,
`OverridesAssumption`, the six of `Checks`, the four of `Loading`): well-typed
configurations, finite tables, that a table pair has checks, which `_parse_pair`
enforces, and what section 5.3 says of secrets. The sets of pairs, tables,
checks, keys, values, rules, URLs and processes are otherwise arbitrary. Where a
theorem assumes more, its statement says so.

Of the properties the passing runs check, every invariant, and the refinement
`KeepsContract`, is a theorem. Model-checked only are the two properties under
fairness, `OnlyPostgresHangs` and `WalksEvenTables`, because the provers do not reach
ENABLED and fairness. Their halves that are safety are proved:
`DescentTheorem` with `RunOrderWellFounded` and `NeverStuckTheorem` for the first, and
`EvenWalkTheorem` for the second. The five runs that end in a
violation refute what they check, so there is nothing to prove; the theorems'
hypotheses say under which circumstances the same statements hold
(`NoPostgresLacks` for finding 3, `Grants \subseteq {"all"}` for finding 4), or
another theorem says what holds instead (`EvenWalkTheorem` for finding 1,
`DriftAlarmTheorem` for finding 5).

### 5.1 The run: `RunnerProofs`, `OverridesProofs`

- `TypeInvariant`; the lemmas that the worst status and its code are what
  `CronContract` computes; and `ContractTheorem`, that each step maps to a step of
  `CronContract` or to a stutter when the statuses of the printed report are read
  as the contract's.
- `NothingLost` is not inductive, because it speaks of finished pairs only.
  `AccountInv` adds what the unfinished pair has promised so far: where the
  thread is within pair and table (`PlaceOK`, `LoopOK`), that the results found
  plus the work left make up what is owed (`ProgressOK`), that a
  `table_presence` result has its reason (`PresenceOK`), that an exception on its
  way has taken the results with it and has a reason (`ExceptOK`), and that only
  pairs that started have results. From it follow `ReportIsComplete` and, with
  `Told`, that each incident leaves an ERROR or an exception on its way,
  `GreenTheorem`.
- `SessionsTheorem` rests on `SessionPlaces`: once the target's exit is over, whether
  its body returned or raised, that session is closed, and once the source's is over
  too, both are. By `ExceptOK` a close that raised ends in a pair that failed as a
  whole.
- `ErrorsTheorem` needs that a session of the pair is unusable only after an
  incident that is `Fatal` (`HealthOK`), that such a reason is never withdrawn, and
  that results already found have theirs (`LocalOK`). It assumes nothing.
  `MissingColumnTheorem` adds that a column incident is of a table that lacks one
  (`ColumnsOK`), and assumes `NoPostgresLacks`: no column is missing at a PostgreSQL
  target. Finding 3 is what happens otherwise.
- Why a run ends: each step of the command takes `Measure` down in `RunOrder`
  (`DescentTheorem`): the pairs to start, then the tables of this pair, then the
  phase, then the sessions to open or the checks to run in it. Of that order,
  `RunOrderWellFounded` says that nothing descends in it for ever when pairs,
  tables and checks are finite. `NeverStuckTheorem` says that before its exit a run
  can take a step (`CanGoOn`, what the guards of the command's steps come to) unless
  a PostgreSQL session hangs (`Hangs`). It needs that the sessions of a pair under
  check are open or failed (`HealthOK`). What is left of `OnlyPostgresHangs` is `FairSpec`, that
  the interpreter takes the step.
- `OverridesProofs`: `OverridesType`, and the precedence properties, which speak of
  the first i rules. `LaterRulesWin` and `LastRenameWins` are their own loop
  invariants, with one fact about merging one rule; `RunsUnlessDisabled` follows
  from `RunsAsCoded`, which says of every check, also one the defaults set to
  False, when it runs.

### 5.2 The checks: `Sessions`, `ChecksProofs`, `SamplingProofs`, `CoverageProofs`, `ChecksumProofs`

Everything rests on one lemma of `Sessions`: outside `touched` neither table
changes, so each snapshot agrees there with the current tables (`SnapshotOK`).
A check therefore knows nothing certain about its tables but what it read of
rows (or, for schemas, columns) outside `touched`, and its invariant says what
that is between the queries. A behaviour of `Checks` evaluates one check, so there is one
inductive invariant per check (`FreshHolds`, ..., each `which = "x" => ...`);
`ChecksTypes` puts their type invariants together.

- freshness (`FreshInv`): a stamp is never newer than the clock, nor at the
  target newer than the last delivery, in any snapshot (`StampsOK`); what was read
  at the source is as new as any untouched row (`NewestKnown`); while nothing was
  lost, the target lacks only what is in the pipe (`InStep`). The first two give
  `DeadConnectorTheorem`: what is found at the target is no newer than `applied`,
  so the lag is too large. The third gives `AlarmTheorem`, which assumes
  `"target" \notin Pinned`: a target read from an old snapshot does lag behind
  itself (section 4). That a finite set of stamps has a newest one is proved
  from the well-foundedness of `<`.
- row_delta (`RowDeltaInv`): the rows that never crossed the edge of the window
  are counted the same in every snapshot (`StayersOK`), so a count is off from
  theirs by between 0 and the size of `churn` (`SourceCounted`), and the difference
  of two counts by at most that much either way (`RowDeltaTheorem`).
- null_rate (`NullsInv`): no snapshot of the source shows a NULL that `hadNull` does
  not know (`HadNullKnown`), so the share read there is 0 for every other column;
  and until a row is touched it is the share of the source as it is
  (`ShareKnown`). A column that was judged and is no offender has no more untouched
  NULLs at the target than the tolerance allows (`PassedKnown`): the query counted all
  of them, and no more rows than are there or were touched. This gives
  `NullCorruptionTheorem` once all columns are judged (`PlaceKnown`).
  `NullAlarmTheorem` follows from `ShareKnown`: equal columns have equal shares.
- schema_drift (`DriftInv`): what was read at the source is still true of the
  columns nobody altered (`SourceKnown`). `LateColumnTheorem` and `MigrationTheorem`
  need nothing else. For `DriftAlarmTheorem`, `DifferedKnown`: of a column the sides
  never showed differently, what was read is still what both would report, however
  often both were altered alike.
- the choices of `sampled_checksum` (`SelectInv`): the key is the one the options
  name or the primary key as far as it is visible (`KeyKnown`), and `columns` is
  right about the columns nobody altered after each of the schema queries
  (`ColumnsKnown`): `SharedColumnsTheorem`, `SpreadTheorem`, and `PrimaryKeyTheorem`
  where every PostgreSQL user may do more than SELECT. With SELECT only it is
  false (finding 4).
- the comparison of a cell (`CellInv`): the coarse type determines the class
  and, after `_normalize`, the value is the datum itself (`CellNormal`), so equality of
  values is equality of data within a family. `FaithfulCopyTheorem` and
  `DriftTheorem` assume `PlainDrivers` (no `uuid`, `money` or MySQL `json`, MySQL
  sessions that show moments in UTC), the second also that no float is compared with a text
  or bytes (`FloatsAmongNumbers`); section 4 says what happens otherwise.
  `SymmetryTheorem` assumes neither.
- `SamplingProofs`: "newest n" returns at most n keys, because the number of keys
  above is a one-to-one map into 0..n-1, and a finite non-empty set of keys has
  a newest one, by the same map; the two halves stay within the sample size
  (`DrawBound`). `ChecksumProofs` uses it.
  `EvenWalkTheorem` is about `Even` tables, those without gaps whose size the spread
  divides, as `WalksEvenTables` means them: two keys of one class are a multiple of
  the modulus apart (`ClassDistance`), keys without gaps are closer together than
  there are rows (`GapFree`), and rows = modulus * `nSpread` (`SpreadModulus`). So the class
  of a key has fewer than `nSpread` keys above it, and the run that draws its
  remainder checks it. What is left is fairness: that each remainder is drawn
  some day.
- `ChecksumProofs`: the fetched rows agree with the tables outside `touched`
  (`FetchedOK`), so the comparison is exact (`ExactTheorem`); quiet rows with fewer
  than `Window` present or touched keys above them are always sampled (`WindowOK`,
  `WindowTheorem`). Besides `ChecksumTypes`, `FetchedTheorem`, `ChecksumBudget`, and
  `EmptyTheorem`, which assumes that the strategy samples newest rows
  (`Window > 0`).

### 5.3 The file: `LoadingProofs`

`LoadingAssumption`, `URLAssumption`, `HandWrittenAssumption` and `NoneAssumption`
say that a password is not spelled like a placeholder, that URLs have no empty
path part, that every variable `init` and the example name can be set, and that
operators keep secrets in the environment and save the keys the loader looks
for, with whatever mistakes in them.

- `LoadingTypes` from `LoadingInv`: besides the types, a process that writes has
  passed the tests of its URLs (`PlaceOK`), and while a process owns the file it
  holds exactly what that process generated (`OwnerOK`); opening disowns it,
  because the previous writer's text is gone.
- `NoSecretTheorem`: the file is truncated, the example, what `init` generated or
  what an operator saved. The generated text has a placeholder in the place of
  every password, and a placeholder is no secret.
- `RoundTripTheorem`: a process that loads a file owned by `q` loads, by
  `OwnerOK`, what `q` generated; resolving its placeholders in an environment that
  has the passwords puts each back at its own connection, and the rest is what
  `_scan_config` makes of the same URLs.
- `RunnableTheorem`: a pair that `_parse_pair` accepts has the names, connections
  and checks the runner goes on to use for the kind it takes the pair for, or is
  two tables with an empty schema at the source (`Nameless`, section 4). Nothing is
  assumed of what operators save but its shape.

## 6. Not modelled, and the plan

Not modelled, because no property depends on it: the SQL text, the wording and
layout of reports and messages, YAML syntax, user, port and percent-decoding of
URLs. Not modelled although it matters: the process environment shared by two
BigQuery connections (one call, section 4); rows of several columns in `Checksum`
(a row is one value there, a cell in `Values`).

What would come next:

1. Composition: `Overrides` giving `Runner` its `Checks`, `Target` and `BadRule`, and
   each check as a refinement of `Runner`'s `Evaluate` and `QueryFails`, with the
   step-by-step proof that its verdicts are among `Verdicts`.
2. The abstract specification of a check, "reads both sides, in this order, and
   says one thing", of which the modules of the checks are refinements.
3. Rows of several columns in `Checksum`, with `Values` deciding each cell.
