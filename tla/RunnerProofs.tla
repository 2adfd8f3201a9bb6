---------------------------- MODULE RunnerProofs ----------------------------
(***************************************************************************)
(* Proofs about Runner, for every configuration, engine and number of      *)
(* pairs, tables and checks.                                               *)
(***************************************************************************)
EXTENDS Runner, FiniteSetTheorems, TLAPS

-----------------------------------------------------------------------------
(* The severity order and the exit codes *)

\* worst_status picks the most severe status there is.
LEMMA WorstIsWorst ==
    ASSUME NEW S \in SUBSET Statuses
    PROVE  /\ S = {} => worst_status(S) = "ok"
           /\ S # {} => /\ worst_status(S) \in S
                        /\ \A t \in S : Severity[t] <= Severity[worst_status(S)]
<1>1. CASE S = {}
  BY <1>1 DEF worst_status
<1>2. CASE S # {}
  <2>1. \E s \in S : \A t \in S : Severity[t] <= Severity[s]
    <3>1. CASE "error" \in S  BY <3>1 DEF Severity, Statuses
    <3>2. CASE "error" \notin S /\ "fail" \in S  BY <3>2 DEF Severity, Statuses
    <3>3. CASE "error" \notin S /\ "fail" \notin S /\ "warn" \in S
      BY <3>3 DEF Severity, Statuses
    <3>4. CASE "error" \notin S /\ "fail" \notin S /\ "warn" \notin S
      <4>1. \A t \in S : t = "ok"  BY <3>4 DEF Statuses
      <4>2. PICK s \in S : TRUE  BY <1>2
      <4> QED  BY <4>1, <4>2 DEF Severity
    <3> QED  BY <3>1, <3>2, <3>3, <3>4
  <2> QED  BY <1>2, <2>1 DEF worst_status
<1> QED  BY <1>1, <1>2

\* The exit code of a set of statuses, as the documentation words it.
LEMMA CodeOfWorst ==
    ASSUME NEW S \in SUBSET Statuses
    PROVE  exit_code(worst_status(S)) =
               IF S \cap {"fail", "error"} # {} THEN 2
               ELSE IF "warn" \in S THEN 1 ELSE 0
<1>1. CASE S = {}
  BY <1>1, WorstIsWorst DEF exit_code
<1>2. CASE S # {}
  <2>1. worst_status(S) \in S
        /\ \A t \in S : Severity[t] <= Severity[worst_status(S)]
    BY <1>2, WorstIsWorst
  <2>2. CASE worst_status(S) \in {"fail", "error"}
    BY <2>1, <2>2 DEF exit_code
  <2>3. CASE worst_status(S) = "warn"
    <3>1. "fail" \notin S /\ "error" \notin S
      BY <2>1, <2>3 DEF Severity
    <3> QED  BY <2>1, <2>3, <3>1 DEF exit_code
  <2>4. CASE worst_status(S) = "ok"
    <3>1. "fail" \notin S /\ "error" \notin S /\ "warn" \notin S
      BY <2>1, <2>4 DEF Severity
    <3> QED  BY <2>4, <3>1 DEF exit_code
  <2> QED  BY <2>1, <2>2, <2>3, <2>4 DEF Statuses
<1> QED  BY <1>1, <1>2

-----------------------------------------------------------------------------
(* Type correctness *)

LEMMA JudgeType ==
    ASSUME TypeOK, NEW c \in CheckNames, NEW s \in Statuses, pair \in Pairs,
           Judge(c, s)
    PROVE  found' \subseteq Result /\ todo' \subseteq CheckNames
<1>1. CheckResult(pair, table, c, s) \in Result
  BY DEF TypeOK, CheckResult, Result
<1> QED  BY <1>1 DEF TypeOK, Judge

\* In these phases the thread is inside run_pair.
InPair == {"connect", "list", "tables", "check", "close_target", "close_source", "leave"}

\* The part of the invariant that types and places the thread.
PairOK == phase \in InPair \cup {"hung"} => pair \in Pairs

LEMMA ConnectionErrorsType ==
    ASSUME NEW p \in Pairs
    PROVE  ConnectionErrors(p) \subseteq Result
<1>1. Checks[p][NONE] \subseteq CheckNames
  BY RunnerAssumption
<1> QED  BY <1>1 DEF ConnectionErrors, CheckResult, Result, Statuses

LEMMA HappensType ==
    ASSUME TypeOK, pair \in Pairs, NEW c \in CheckNames \cup {"connection"},
           NEW s \in Sides, NEW k \in WholeKinds \cup QueryKinds, Happens(c, s, k)
    PROVE  incidents' \subseteq Incident
<1> DEFINE new == [pair |-> pair, table |-> table, check |-> c, side |-> s, kind |-> k]
<1>1. new \in Incident
  BY DEF Incident, TypeOK
<1>2. incidents' = incidents \cup {new}
  BY DEF Happens
<1> HIDE DEF new
<1> QED  BY <1>1, <1>2 DEF TypeOK

LEMMA UnwindType ==
    ASSUME TypeOK, pair \in Pairs, Unwind("leave") \/ Unwind("close_source")
                                   \/ Unwind("close_target"),
           session' \in [Sides -> SessionStates], incidents' \subseteq Incident
    PROVE  TypeOK' /\ PairOK'
BY DEF TypeOK, PairOK, Unwind, Phases, InPair, outletVars

\* The ways out of the `with` clauses.
LEMMA ClosingType ==
    ASSUME TypeOK, PairOK, NEW s \in Sides,
           \/ Close(s) \/ LeavePair
           \/ \E kind \in WholeKinds : CloseRaises(s, kind)
    PROVE  TypeOK' /\ PairOK'
<1> USE DEF Closing, Outward, Sides, InPair, outletVars
<1>1. CASE Close(s)
  BY <1>1 DEF TypeOK, PairOK, Close, Phases, SessionStates
<1>2. ASSUME NEW kind \in WholeKinds, CloseRaises(s, kind)
      PROVE  TypeOK' /\ PairOK'
  <2>1. pair \in Pairs
    BY <1>2 DEF PairOK, CloseRaises
  <2>2. incidents' \subseteq Incident
    BY <1>2, <2>1, HappensType DEF CloseRaises
  <2>3. session' \in [Sides -> SessionStates]
    BY <1>2 DEF TypeOK, CloseRaises, SessionStates
  <2>4. Unwind("leave") \/ Unwind("close_source")
    BY <1>2 DEF CloseRaises
  <2> QED  BY <2>1, <2>2, <2>3, <2>4, UnwindType
<1>3. CASE LeavePair
  <2>1. pair \in Pairs
    BY <1>3 DEF PairOK, LeavePair
  <2>2. results' \subseteq Result
    BY <1>3, <2>1, ConnectionErrorsType DEF TypeOK, LeavePair
  <2> QED  BY <1>3, <2>2 DEF TypeOK, PairOK, LeavePair, Phases
<1> QED  BY <1>1, <1>2, <1>3

LEMMA FailureType ==
    ASSUME TypeOK, PairOK, ConnectFails \/ \E s \in Sides : ListingFails(s)
    PROVE  TypeOK' /\ PairOK'
<1>1. CASE ConnectFails
  <2>1. pair \in Pairs /\ Opening \in Sides
    BY <1>1 DEF PairOK, InPair, ConnectFails, Opening, Sides
  <2>2. incidents' \subseteq Incident
    BY <1>1, <2>1, HappensType DEF ConnectFails, WholeKinds
  <2> QED  BY <1>1, <2>1, <2>2, UnwindType DEF ConnectFails, TypeOK
<1>2. ASSUME NEW s \in Sides, ListingFails(s)
      PROVE  TypeOK' /\ PairOK'
  <2>1. pair \in Pairs
    BY <1>2 DEF PairOK, InPair, ListingFails
  <2>2. incidents' \subseteq Incident
    BY <1>2, <2>1, HappensType DEF ListingFails, WholeKinds
  <2> QED  BY <1>2, <2>1, <2>2, UnwindType DEF ListingFails, TypeOK
<1> QED  BY <1>1, <1>2

\* The adapters' state and the run's, after any outcome of one check.
LEMMA RunCheckType ==
    ASSUME TypeOK, PairOK, RunCheck
    PROVE  TypeOK' /\ PairOK'
<1> USE DEF outletVars, InPair
<1>1. ASSUME NEW c \in CheckNames, UnknownCheck(c)
      PROVE  TypeOK' /\ PairOK'
  <2>1. found' \subseteq Result /\ todo' \subseteq CheckNames
    BY <1>1, JudgeType DEF UnknownCheck, PairOK, Statuses
  <2> QED  BY <1>1, <2>1 DEF TypeOK, PairOK, UnknownCheck, Judge
<1>2. ASSUME NEW c \in CheckNames, Skip(c)
      PROVE  TypeOK' /\ PairOK'
  <2>1. found' \subseteq Result /\ todo' \subseteq CheckNames
    BY <1>2, JudgeType DEF Skip, Running, PairOK, Statuses
  <2> QED  BY <1>2, <2>1 DEF TypeOK, PairOK, Skip, Running, Judge
<1>3. ASSUME NEW c \in CheckNames, MissingColumn(c)
      PROVE  TypeOK' /\ PairOK'
  <2>1. found' \subseteq Result /\ todo' \subseteq CheckNames
    BY <1>3, JudgeType DEF MissingColumn, Running, PairOK, Statuses
  <2>2. session' \in [Sides -> SessionStates]
    BY <1>3 DEF TypeOK, MissingColumn, AfterRejection, SessionStates
  <2>3. incidents' \subseteq Incident
    BY <1>3, HappensType DEF MissingColumn, Running, PairOK, QueryKinds, Sides
  <2> QED  BY <1>3, <2>1, <2>2, <2>3 DEF TypeOK, PairOK, MissingColumn, Running, Judge
<1>4. ASSUME NEW c \in CheckNames, SessionDead(c)
      PROVE  TypeOK' /\ PairOK'
  <2>1. found' \subseteq Result /\ todo' \subseteq CheckNames
    BY <1>4, JudgeType DEF SessionDead, Running, PairOK, Statuses
  <2> QED  BY <1>4, <2>1 DEF TypeOK, PairOK, SessionDead, Running, Judge
<1>5. ASSUME NEW c \in CheckNames, NEW v \in Statuses, Evaluate(c, v)
      PROVE  TypeOK' /\ PairOK'
  <2>1. found' \subseteq Result /\ todo' \subseteq CheckNames
    BY <1>5, JudgeType DEF Evaluate, Running, PairOK
  <2> QED  BY <1>5, <2>1 DEF TypeOK, PairOK, Evaluate, Running, Judge
<1>6. ASSUME NEW c \in CheckNames, NEW s \in Sides,
             NEW state \in {"open", "aborted", "lost"}, QueryFails(c, s, state)
      PROVE  TypeOK' /\ PairOK'
  <2>1. found' \subseteq Result /\ todo' \subseteq CheckNames
    BY <1>6, JudgeType DEF QueryFails, Running, PairOK, Statuses
  <2>2. session' \in [Sides -> SessionStates]
    BY <1>6 DEF TypeOK, QueryFails, SessionStates
  <2>3. incidents' \subseteq Incident
    BY <1>6, HappensType DEF QueryFails, Running, PairOK, QueryKinds
  <2> QED  BY <1>6, <2>1, <2>2, <2>3 DEF TypeOK, PairOK, QueryFails, Running, Judge
<1>7. ASSUME NEW c \in CheckNames, CheckRaises(c)
      PROVE  TypeOK' /\ PairOK'
  <2>1. found' \subseteq Result /\ todo' \subseteq CheckNames
    BY <1>7, JudgeType DEF CheckRaises, Running, PairOK, Statuses
  <2> QED  BY <1>7, <2>1 DEF TypeOK, PairOK, CheckRaises, Running, Judge
<1>8. CASE EndChecks
  BY <1>8 DEF TypeOK, PairOK, EndChecks, Phases
<1> QED  BY <1>1, <1>2, <1>3, <1>4, <1>5, <1>6, <1>7, <1>8 DEF RunCheck

LEMMA RunSchemaPairType ==
    ASSUME TypeOK, PairOK, RunSchemaPair
    PROVE  TypeOK' /\ PairOK'
<1> USE DEF outletVars, InPair
<1>1. ASSUME NEW S \in SUBSET Tables, NEW T \in SUBSET Tables, ListTables(S, T)
      PROVE  TypeOK' /\ PairOK'
  BY <1>1 DEF TypeOK, PairOK, ListTables, Phases
<1>2. ASSUME NEW t \in Tables, MissingTable(t)
      PROVE  TypeOK' /\ PairOK'
  <2>1. CheckResult(pair, t, "table_presence", "fail") \in Result
    BY <1>2 DEF CheckResult, Result, PairOK, MissingTable, Statuses
  <2> QED  BY <1>2, <2>1 DEF TypeOK, PairOK, MissingTable
<1>3. ASSUME NEW t \in Tables, StartTable(t)
      PROVE  TypeOK' /\ PairOK'
  <2>1. Checks[pair][t] \subseteq CheckNames
    BY <1>3, RunnerAssumption DEF PairOK, StartTable
  <2> QED  BY <1>3, <2>1 DEF TypeOK, PairOK, StartTable, Phases
<1>4. ASSUME NEW t \in Tables, RuleRaises(t)
      PROVE  TypeOK' /\ PairOK'
  BY <1>4, UnwindType DEF RuleRaises, PairOK, TypeOK
<1>5. CASE EndTables
  <2>1. NothingMatched(pair) \subseteq Result
    BY <1>5 DEF NothingMatched, CheckResult, Result, PairOK, EndTables, Statuses
  <2> QED  BY <1>5, <2>1 DEF TypeOK, PairOK, EndTables, Phases
<1> QED  BY <1>1, <1>2, <1>3, <1>4, <1>5 DEF RunSchemaPair

LEMMA NextType ==
    ASSUME TypeOK, PairOK, [Next]_vars
    PROVE  TypeOK' /\ PairOK'
<1> USE DEF outletVars, pairVars, InPair
<1>1. CASE Load
  BY <1>1 DEF TypeOK, PairOK, Load, Phases
<1>2. CASE LoadFails
  BY <1>2 DEF TypeOK, PairOK, LoadFails, Phases, ExitCodes
<1>3. ASSUME NEW p \in Pairs, StartPair(p)
      PROVE  TypeOK' /\ PairOK'
  BY <1>3 DEF TypeOK, PairOK, StartPair, Phases
<1>4. CASE Open
  <2>1. session' \in [Sides -> SessionStates]
    BY <1>4 DEF TypeOK, Open, SessionStates
  <2>2. todo' \subseteq CheckNames
    BY <1>4, RunnerAssumption DEF TypeOK, PairOK, Open
  <2> QED  BY <1>4, <2>1, <2>2 DEF TypeOK, PairOK, Open, Phases
<1>5. CASE ConnectFails \/ \E s \in Sides : ListingFails(s)
  BY <1>5, FailureType
<1>6. CASE RunSchemaPair
  BY <1>6, RunSchemaPairType
<1>7. CASE RunCheck
  BY <1>7, RunCheckType
<1>8. CASE LeavePair \/ \E s \in Sides : \/ Close(s)
                                      \/ \E kind \in WholeKinds : CloseRaises(s, kind)
  BY <1>8, ClosingType DEF Sides
<1>9. CASE PrintResults
  BY <1>9 DEF TypeOK, PairOK, PrintResults, Phases
<1>10. CASE PrintFails
  BY <1>10 DEF TypeOK, PairOK, PrintFails, Phases, ExitCodes
<1>11. CASE SendAlert
  BY <1>11 DEF TypeOK, PairOK, SendAlert, Phases
<1>12. CASE Exit
  <2>1. {r.status : r \in results} \in SUBSET Statuses
    BY DEF TypeOK, Result
  <2>2. exit' \in ExitCodes
    BY <1>12, <2>1, CodeOfWorst DEF Exit, ExitCodes
  <2> QED  BY <1>12, <2>2 DEF TypeOK, PairOK, Exit, Phases
<1>13. ASSUME NEW s \in Sides, QueryHangs(s)
       PROVE  TypeOK' /\ PairOK'
  BY <1>13 DEF TypeOK, PairOK, QueryHangs, Phases, SessionStates
<1>14. CASE Kill
  BY <1>14 DEF TypeOK, PairOK, Kill, Phases
<1>15. CASE UNCHANGED vars
  BY <1>15 DEF TypeOK, PairOK, vars
<1> QED
  BY <1>1, <1>2, <1>3, <1>4, <1>5, <1>6, <1>7, <1>8, <1>9, <1>10, <1>11,
     <1>12, <1>13, <1>14, <1>15
     DEF Next, Command, RunPair, Terminated

LEMMA InitType ==
    ASSUME Init
    PROVE  TypeOK /\ PairOK
<1>1. session \in [Sides -> SessionStates]
  BY DEF Init, SessionStates
<1>2. catalog \in [Pairs -> [source : SUBSET Tables, target : SUBSET Tables]]
  BY DEF Init
<1> QED  BY <1>1, <1>2 DEF Init, TypeOK, PairOK, InPair, Phases

\* Every variable of a run keeps its type, for any configuration.
THEOREM TypeInvariant == Spec => []TypeOK
<1>1. Init => TypeOK /\ PairOK
  BY InitType
<1>2. TypeOK /\ PairOK /\ [Next]_vars => (TypeOK /\ PairOK)'
  BY NextType
<1> QED  BY <1>1, <1>2, PTL DEF Spec

-----------------------------------------------------------------------------
(***************************************************************************)
(* What leaves a run: sessions, the report, the alert and the exit code -- *)
(* and that together they implement CronContract.                          *)
(***************************************************************************)

\* The steps inside run_pair leave the report, the alert and the exit alone.
LEMMA PairStepsAreSilent ==
    ASSUME TypeOK, PairOK, RunPair
    PROVE  /\ UNCHANGED outletVars
           /\ phase \in InPair \cup {"next"} /\ phase' \in InPair \cup {"next"}
<1> USE DEF outletVars, InPair
<1>1. ASSUME NEW p \in Pairs, StartPair(p)
      PROVE  /\ UNCHANGED outletVars
             /\ phase \in InPair \cup {"next"} /\ phase' \in InPair \cup {"next"}
  BY <1>1 DEF StartPair
<1>2. CASE Open \/ LeavePair
           \/ ConnectFails \/ \E s \in Sides : \/ ListingFails(s) \/ Close(s)
                               \/ \E kind \in WholeKinds : CloseRaises(s, kind)
  BY <1>2 DEF Open, LeavePair, ConnectFails, ListingFails, Close, CloseRaises, Unwind,
              Closing, Outward, Sides
<1>3. CASE RunSchemaPair
  BY <1>3 DEF RunSchemaPair, ListTables, MissingTable, StartTable, RuleRaises,
              Unwind, EndTables
<1>4. CASE RunCheck
  BY <1>4 DEF RunCheck, UnknownCheck, Skip, CheckRaises, MissingColumn, SessionDead,
              Evaluate, QueryFails, EndChecks, Running, Judge
<1> QED  BY <1>1, <1>2, <1>3, <1>4 DEF RunPair

-----------------------------------------------------------------------------
(* The alert *)

\* Where the report, the alert and the exit code stand in each phase.
OutletOK ==
    /\ exit # StillRunning <=> phase = "done"
    /\ phase \notin {"alert", "exit", "done"} => report = "none"
    /\ phase \in {"alert", "exit"} => report = "printed"
    /\ phase \notin {"exit", "done"} => alert = "none"
    /\ phase = "exit" => (alert # "none" <=> webhook /\ Bad # {})

LEMMA ExitIsACode ==
    ASSUME TypeOK
    PROVE  exit_code(worst_status({r.status : r \in results})) \in ExitCodes
<1>1. {r.status : r \in results} \in SUBSET Statuses
  BY DEF TypeOK, Result
<1> QED  BY <1>1, CodeOfWorst DEF ExitCodes

LEMMA NextOutlet ==
    ASSUME TypeOK, PairOK, OutletOK, [Next]_vars
    PROVE  OutletOK'
<1> USE DEF OutletOK, Bad, ExitCodes, StillRunning, Killed,
            outletVars, pairVars
<1>1. CASE Load \/ LoadFails \/ PrintResults \/ PrintFails \/ Kill
  BY <1>1 DEF Load, LoadFails, PrintResults, PrintFails, Kill
<1>2. CASE RunPair
  BY <1>2, PairStepsAreSilent DEF InPair
<1>3. CASE SendAlert
  <2>1. CASE webhook /\ Bad # {}
    BY <1>3, <2>1 DEF SendAlert
  <2>2. CASE ~(webhook /\ Bad # {})
    BY <1>3, <2>2 DEF SendAlert
  <2> QED  BY <2>1, <2>2
<1>4. CASE Exit
  BY <1>4, ExitIsACode DEF Exit
<1>5. CASE UNCHANGED vars \/ Terminated \/ \E s \in Sides : QueryHangs(s)
  BY <1>5 DEF vars, Terminated, QueryHangs
<1> QED  BY <1>1, <1>2, <1>3, <1>4, <1>5 DEF Next, Command

LEMMA Outlets == Spec => [](TypeOK /\ PairOK /\ OutletOK)
<1>1. Init => TypeOK /\ PairOK /\ OutletOK
  BY InitType DEF Init, OutletOK
<1>2. TypeOK /\ PairOK /\ OutletOK /\ [Next]_vars => (TypeOK /\ PairOK /\ OutletOK)'
  BY NextType, NextOutlet
<1> QED  BY <1>1, <1>2, PTL DEF Spec

-----------------------------------------------------------------------------
(* The refinement *)

\* Every step of a run is a step the contract allows, or changes nothing of
\* what it speaks about.
LEMMA NextKeepsContract ==
    ASSUME TypeOK, PairOK, OutletOK, [Next]_vars
    PROVE  [Contract!Next]_(Contract!vars)
<1> USE DEF Contract!vars, Contract!Next, Contract!StillRunning,
            Contract!Killed, Contract!Statuses, Statuses, StillRunning, Killed,
            outletVars, pairVars
<1>0. {r.status : r \in results} \in SUBSET Statuses
  BY DEF TypeOK, Result
<1>1. CASE Load
  <2>1. Contract!Configure
    BY <1>1 DEF Load, Contract!Configure, OutletOK
  <2> QED  BY <2>1
<1>2. CASE LoadFails \/ PrintFails
  <2>1. Contract!Refuse
    BY <1>2 DEF LoadFails, PrintFails, Contract!Refuse, OutletOK
  <2> QED  BY <2>1
<1>3. CASE RunPair
  <2>1. UNCHANGED outletVars /\ report = "none"
    BY <1>3, PairStepsAreSilent DEF OutletOK, InPair
  <2> QED  BY <2>1
<1>4. CASE PrintResults
  <2>1. Contract!Publish
    BY <1>0, <1>4 DEF PrintResults, Contract!Publish, OutletOK
  <2> QED  BY <2>1
<1>5. CASE SendAlert
  <2>1. CASE webhook /\ Bad # {}
    <3>1. {r.status : r \in results} \ {"ok"} # {}
      BY <2>1 DEF Bad
    <3>2. Contract!Tell
      BY <1>5, <2>1, <3>1 DEF SendAlert, Contract!Tell, OutletOK
    <3> QED  BY <3>2
  <2>2. CASE ~(webhook /\ Bad # {})
    BY <1>5, <2>2 DEF SendAlert
  <2> QED  BY <2>1, <2>2
<1>6. CASE Exit
  <2> DEFINE S == {r.status : r \in results}
  <2>1. exit_code(worst_status(S)) = IF S \cap {"fail", "error"} # {} THEN 2
                                     ELSE IF "warn" \in S THEN 1 ELSE 0
    <3> HIDE DEF S
    <3> QED  BY <1>0, CodeOfWorst DEF S
  <2>2. S \ {"ok"} # {} => Bad # {}
    BY DEF Bad
  <2>3. Contract!End
    BY <1>6, <2>1, <2>2 DEF Exit, Contract!End, OutletOK
  <2> QED  BY <2>3
<1>7. CASE Kill
  <2>1. Contract!Kill
    BY <1>7 DEF Kill, Contract!Kill
  <2> QED  BY <2>1
<1>8. CASE UNCHANGED vars \/ Terminated \/ \E s \in Sides : QueryHangs(s)
  BY <1>8 DEF vars, Terminated, QueryHangs
<1> QED  BY <1>1, <1>2, <1>3, <1>4, <1>5, <1>6, <1>7, <1>8 DEF Next, Command

\* The command implements the cron contract: one report at most, an alert only
\* about a problem in it, and an exit code that is a function of the report.
THEOREM ContractTheorem == Spec => KeepsContract
<1>1. Init => Contract!Init
  BY DEF Init, Contract!Init, Contract!StillRunning, StillRunning
<1>2. TypeOK /\ PairOK /\ OutletOK /\ [Next]_vars => [Contract!Next]_(Contract!vars)
  BY NextKeepsContract
<1> QED  BY <1>1, <1>2, Outlets, PTL DEF Spec, KeepsContract, Contract!Spec

-----------------------------------------------------------------------------
(***************************************************************************)
(* The report of a run accounts for everything the run owes, and exit code *)
(* 0 is earned.                                                            *)
(***************************************************************************)

Has(R, t, c) == \E r \in R : r.table = t /\ r.check = c

OncePerKey(R) == \A r, q \in R : r.table = q.table /\ r.check = q.check => r = q

\* What pair p owes for a table (NONE: for itself) that is to be checked.
Owes(p, t, c) ==
    IF p \in SchemaPairs THEN t \in Selected(p) /\ c \in Due(p, t)
    ELSE t = NONE /\ c \in Checks[p][NONE]

\* What the loops have not reached yet.
StillOwed(t, c) == \/ t \in tables /\ c \in Due(pair, t)
                   \/ t = table /\ c \in todo

\* Where results come from: no queued pair has any, the running pair's are all
\* in `found`, and the phases that follow the loops know no pair.
PlaceOK ==
    /\ phase = "load" => queue = Pairs /\ pair = NONE
    /\ phase \in {"next", "alert", "exit"} => pair = NONE
    /\ phase \in {"alert", "exit"} => queue = {}
    /\ phase \in InPair => pair \notin queue
    /\ phase \in InPair => \A r \in results : r.pair # pair
    /\ phase \in InPair => \A r \in found : r.pair = pair
    /\ \A r \in results : r.pair \notin queue
    /\ \A i \in incidents : i.pair \notin queue
    /\ phase \in {"load", "next", "connect", "list", "tables", "check", "alert", "exit"}
           => ~raised

\* Behind the body of the two `with` clauses.
WaysOut == {"close_target", "close_source", "leave"}

\* Where the two inner loops stand.
LoopOK ==
    /\ phase \notin {"check", "done", "hung"} => table = NONE /\ todo = {}
    /\ phase \notin {"tables", "check", "done", "hung"} => tables = {}
    /\ phase \in {"load", "next", "connect", "list", "alert", "exit"} => found = {}
    /\ phase \in {"list", "tables"} => pair \in SchemaPairs
    /\ phase \in {"tables", "check"} =>
           tables \subseteq IF pair \in SchemaPairs THEN Selected(pair) ELSE {}
    /\ phase = "check" =>
           /\ todo \subseteq Checks[pair][table]
           /\ IF pair \in SchemaPairs
              THEN /\ table \in Selected(pair) \ tables
                   /\ Target[pair][table] \in catalog[pair].target
              ELSE table = NONE

\* What is found and what is still owed make up what the pair owes, and no
\* two results answer the same question.
ProgressOK ==
    /\ phase \in {"tables", "check"} =>
           \A t \in Tables \cup {NONE}, c \in CheckNames \cup {"table_presence"} :
               Has(found, t, c) <=> Owes(pair, t, c) /\ ~StillOwed(t, c)
    /\ phase \in {"tables", "check"} => "connection" \notin {r.check : r \in found}
    /\ phase \in WaysOut /\ ~raised => Covered(found) = Expected(pair)
    /\ phase \in {"tables", "check"} \cup WaysOut => OncePerKey(found)

\* An exception is on its way exactly if the pair broke, and takes the results
\* along; a rule that raises does so as soon as its table is visited.
ExceptOK ==
    /\ phase \in InPair /\ ~raised => ~ConnectionBroke(pair)
    /\ phase \in InPair /\ raised => found = {} /\ Broken(pair)
    /\ phase \in {"tables", "check"} /\ pair \in SchemaPairs =>
           \A t \in Selected(pair) \cap BadRule[pair] :
               Target[pair][t] \in catalog[pair].target => t \in tables
    /\ phase \in WaysOut /\ ~raised => ~RuleBreaks(pair)

\* A table_presence result never says OK.
PresenceOK == \A r \in found \cup results :
                  r.check = "table_presence" => r.status # "ok"

AccountInv == /\ TypeOK /\ PairOK /\ PlaceOK /\ LoopOK /\ ProgressOK
              /\ ExceptOK /\ PresenceOK /\ NothingLost

-----------------------------------------------------------------------------
(* Pairs that are over stay accounted for *)

\* New incidents are of the pair being run.
Added == /\ incidents \subseteq incidents'
         /\ \A i \in incidents' \ incidents : i.pair = pair

LEMMA NothingLostStays ==
    ASSUME NothingLost, results' = results, Added,
           \A p \in Pairs : Finished(p)' => Finished(p) /\ catalog'[p] = catalog[p]
    PROVE  NothingLost'
<1> SUFFICES ASSUME NEW p \in Pairs, Finished(p)'
             PROVE  Accounted(p)'
  BY DEF NothingLost
<1>1. Accounted(p) /\ catalog'[p] = catalog[p] /\ p # pair
  BY DEF NothingLost, Finished
<1>2. /\ ResultsOf(p)' = ResultsOf(p) /\ Expected(p)' = Expected(p)
      /\ RuleBreaks(p)' = RuleBreaks(p)
  BY <1>1 DEF ResultsOf, Expected, RuleBreaks, Selected, Due
<1>3. ConnectionBroke(p)' <=> ConnectionBroke(p)
  BY <1>1 DEF ConnectionBroke, Added
<1> QED  BY <1>1, <1>2, <1>3 DEF Accounted, Broken

\* The results X of the pair that just ended join those of the others.
LEMMA NothingLostExtends ==
    ASSUME AccountInv, phase \in InPair, NEW X,
           \A x \in X : x.pair = pair,
           OncePerKey(X),
           IF Broken(pair) THEN FailedAsWhole(pair, X) ELSE Covered(X) = Expected(pair),
           results' = results \cup X, pair' = NONE,
           UNCHANGED <<queue, catalog, incidents>>
    PROVE  NothingLost'
<1> SUFFICES ASSUME NEW p \in Pairs, Finished(p)'
             PROVE  Accounted(p)'
  BY DEF NothingLost
<1>1. Expected(p)' = Expected(p) /\ (Broken(p)' <=> Broken(p))
  BY DEF Expected, Broken, ConnectionBroke, RuleBreaks, Selected, Due
<1>2. CASE p = pair
  <2>1. ResultsOf(p)' = X
    BY <1>2 DEF ResultsOf, AccountInv, PlaceOK
  <2> QED  BY <1>1, <1>2, <2>1 DEF Accounted, OncePerKey
<1>3. CASE p # pair
  <2>1. ResultsOf(p)' = ResultsOf(p)
    BY <1>3 DEF ResultsOf
  <2>2. Accounted(p)
    BY <1>3 DEF AccountInv, NothingLost, Finished
  <2> QED  BY <1>1, <2>1, <2>2 DEF Accounted
<1> QED  BY <1>2, <1>3

-----------------------------------------------------------------------------
(* One step of the program at a time *)

\* What the steps below preserve; types are RunnerProofs' subject.
Books == PlaceOK /\ LoopOK /\ ProgressOK /\ ExceptOK /\ PresenceOK /\ NothingLost

\* What a query's failure adds to the history breaks no pair.
QueryAdded == /\ Added
              /\ \A i \in incidents' \ incidents : i.kind \in QueryKinds

\* Results and the places of the loops may change, but not the pair's tables.
LEMMA ExceptStays ==
    ASSUME AccountInv, phase \in InPair, QueryAdded,
           UNCHANGED <<pair, catalog, raised, tables>>,
           raised => found' = found,
           phase' = phase
           \/ {phase, phase'} \subseteq {"connect", "list"}
           \/ {phase, phase'} \subseteq {"tables", "check"}
           \/ {phase, phase'} \subseteq WaysOut
    PROVE  ExceptOK'
<1>1. ConnectionBroke(pair)' <=> ConnectionBroke(pair)
  BY DEF ConnectionBroke, QueryAdded, Added, QueryKinds, WholeKinds
<1>2. RuleBreaks(pair)' <=> RuleBreaks(pair)
  BY DEF RuleBreaks, Selected
<1>3. phase' \in InPair
  BY DEF InPair, WaysOut
<1>4. Selected(pair)' = Selected(pair)
  BY DEF Selected
<1> QED  BY <1>1, <1>2, <1>3, <1>4 DEF ExceptOK, AccountInv, Broken, WaysOut

LEMMA JudgeBooks ==
    ASSUME AccountInv, phase = "check", NEW c \in todo, NEW s \in Statuses,
           Judge(c, s), QueryAdded
    PROVE  Books'
<1> DEFINE new == CheckResult(pair, table, c, s)
<1>1. c \in CheckNames /\ c # "table_presence" /\ c # "connection"
  BY RunnerAssumption DEF AccountInv, TypeOK
<1>2. new.pair = pair /\ new.table = table /\ new.check = c
  BY DEF CheckResult
<1>3. /\ found' = found \cup {new} /\ todo' = todo \ {c}
      /\ UNCHANGED <<phase, queue, pair, catalog, tables, table, raised, results>>
  BY DEF Judge
<1>4. table \notin tables /\ Owes(pair, table, c) /\ StillOwed(table, c)
  BY DEF AccountInv, LoopOK, PairOK, InPair, TypeOK, Owes, StillOwed, Due
<1>5. table \in Tables \cup {NONE}
  BY DEF AccountInv, TypeOK
<1>6. ~Has(found, table, c)
  BY <1>1, <1>4, <1>5 DEF AccountInv, ProgressOK
<1>7. PlaceOK'
  BY <1>2, <1>3 DEF AccountInv, PlaceOK, InPair, QueryAdded, Added
<1>8. LoopOK'
  BY <1>3 DEF AccountInv, LoopOK, Selected
<1>9. ProgressOK'
  <2>1. ASSUME NEW t \in Tables \cup {NONE},
               NEW d \in CheckNames \cup {"table_presence"}
        PROVE  (Has(found, t, d) <=> Owes(pair, t, d) /\ ~StillOwed(t, d))'
    <3>1. Has(found, t, d)' <=> Has(found, t, d) \/ (t = table /\ d = c)
      BY <1>2, <1>3 DEF Has
    <3>2. Owes(pair, t, d)' <=> Owes(pair, t, d)
      BY <1>3 DEF Owes, Selected, Due
    <3>3. StillOwed(t, d)' <=> StillOwed(t, d) /\ ~(t = table /\ d = c)
      BY <1>3, <1>4 DEF StillOwed, Due
    <3>4. Has(found, t, d) <=> Owes(pair, t, d) /\ ~StillOwed(t, d)
      BY DEF AccountInv, ProgressOK
    <3> QED  BY <3>1, <3>2, <3>3, <3>4, <1>4
  <2>2. OncePerKey(found)'
    BY <1>2, <1>3, <1>6 DEF AccountInv, ProgressOK, OncePerKey, Has
  <2>3. "connection" \notin {r.check : r \in found'}
    BY <1>1, <1>2, <1>3 DEF AccountInv, ProgressOK
  <2> QED  BY <1>3, <2>1, <2>2, <2>3 DEF ProgressOK, WaysOut
<1>10. PresenceOK'
  BY <1>1, <1>2, <1>3 DEF AccountInv, PresenceOK
<1>11. NothingLost'
  BY <1>3, NothingLostStays DEF AccountInv, Finished, QueryAdded
<1>12. ExceptOK'
  <2>1. ~raised
    BY DEF AccountInv, PlaceOK
  <2> QED  BY <1>3, <2>1, ExceptStays DEF InPair
<1> QED  BY <1>7, <1>8, <1>9, <1>10, <1>11, <1>12 DEF Books

LEMMA RunCheckBooks ==
    ASSUME AccountInv, RunCheck
    PROVE  Books'
<1>1. ASSUME NEW c \in CheckNames,
             UnknownCheck(c) \/ Skip(c) \/ CheckRaises(c) \/ SessionDead(c)
      PROVE  Books'
  <2>1. QueryAdded
    BY <1>1 DEF UnknownCheck, Skip, CheckRaises, SessionDead, QueryAdded, Added
  <2> QED  BY <1>1, <2>1, JudgeBooks
           DEF UnknownCheck, Skip, CheckRaises, SessionDead, Running, Statuses
<1>3. ASSUME NEW c \in CheckNames, MissingColumn(c)  PROVE  Books'
  <2>1. QueryAdded
    BY <1>3 DEF MissingColumn, Happens, QueryAdded, Added, QueryKinds
  <2> QED  BY <1>3, <2>1, JudgeBooks DEF MissingColumn, Running, Statuses
<1>5. ASSUME NEW c \in CheckNames, NEW v \in Statuses, Evaluate(c, v)
      PROVE  Books'
  <2>1. QueryAdded
    BY <1>5 DEF Evaluate, QueryAdded, Added
  <2> QED  BY <1>5, <2>1, JudgeBooks DEF Evaluate, Running
<1>6. ASSUME NEW c \in CheckNames, NEW s \in Sides,
             NEW state \in {"open", "aborted", "lost"}, QueryFails(c, s, state)
      PROVE  Books'
  <2>1. QueryAdded
    BY <1>6 DEF QueryFails, Happens, QueryAdded, Added, QueryKinds
  <2> QED  BY <1>6, <2>1, JudgeBooks DEF QueryFails, Running, Statuses
<1>7. CASE EndChecks
  <2>1. /\ phase = "check" /\ todo = {} /\ table' = NONE
        /\ phase' = IF pair \in SchemaPairs THEN "tables" ELSE "close_target"
        /\ UNCHANGED <<queue, pair, catalog, tables, todo, found, raised, incidents,
                       results>>
    BY <1>7 DEF EndChecks, outletVars
  <2>2. PlaceOK'
    BY <2>1 DEF AccountInv, PlaceOK, InPair
  <2>3. LoopOK'
    BY <2>1 DEF AccountInv, LoopOK, Selected
  <2>4. ProgressOK'
    <3>1. CASE pair \in SchemaPairs
      <4>1. ASSUME NEW t \in Tables \cup {NONE},
                   NEW c \in CheckNames \cup {"table_presence"}
            PROVE  (Has(found, t, c) <=> Owes(pair, t, c) /\ ~StillOwed(t, c))'
        <5>1. Has(found, t, c) <=> Owes(pair, t, c) /\ ~StillOwed(t, c)
          BY <2>1 DEF AccountInv, ProgressOK
        <5>2. (Has(found, t, c) <=> Has(found, t, c)')
              /\ (Owes(pair, t, c)' <=> Owes(pair, t, c))
              /\ (StillOwed(t, c)' <=> StillOwed(t, c))
          BY <2>1 DEF Has, Owes, StillOwed, Due, Selected
        <5> QED  BY <5>1, <5>2
      <4> QED  BY <2>1, <3>1, <4>1 DEF ProgressOK, AccountInv, OncePerKey, WaysOut
    <3>2. CASE pair \notin SchemaPairs
      <4>1. tables = {} /\ table = NONE
        BY <2>1, <3>2 DEF AccountInv, LoopOK
      <4>2. \A c \in CheckNames \cup {"table_presence"},
               t \in Tables \cup {NONE} :
               Has(found, t, c) <=> t = NONE /\ c \in Checks[pair][NONE]
        BY <2>1, <3>2, <4>1 DEF AccountInv, ProgressOK, Owes, StillOwed
      <4>3. \A r \in found : /\ r.table \in Tables \cup {NONE}
                             /\ r.check \in CheckNames \cup {"table_presence"}
        BY <2>1 DEF AccountInv, TypeOK, ProgressOK, Result
      <4>4. Checks[pair][NONE] \subseteq CheckNames
        BY <2>1, RunnerAssumption DEF AccountInv, PairOK, InPair
      <4>5. Covered(found) = Expected(pair)
        BY <3>2, <4>2, <4>3, <4>4 DEF Covered, Expected, Has
      <4>6. Covered(found)' = Covered(found) /\ Expected(pair)' = Expected(pair)
        BY <2>1 DEF Covered, Expected, Selected, Due
      <4> QED  BY <2>1, <3>2, <4>5, <4>6 DEF ProgressOK, AccountInv, OncePerKey
    <3> QED  BY <3>1, <3>2
  <2>5. PresenceOK'
    BY <2>1 DEF AccountInv, PresenceOK
  <2>6. NothingLost'
    BY <2>1, NothingLostStays DEF AccountInv, Finished, Added
  <2>7. ExceptOK'
    <3>1. ~raised /\ ~ConnectionBroke(pair)
      BY <2>1 DEF AccountInv, PlaceOK, ExceptOK, InPair
    <3>2. ConnectionBroke(pair)' <=> ConnectionBroke(pair)
      BY <2>1 DEF ConnectionBroke
    <3>3. CASE pair \in SchemaPairs
      BY <2>1, <3>3, ExceptStays DEF InPair, QueryAdded, Added
    <3>4. CASE pair \notin SchemaPairs
      BY <2>1, <3>1, <3>2, <3>4 DEF ExceptOK, RuleBreaks
    <3> QED  BY <3>3, <3>4
  <2> QED  BY <2>2, <2>3, <2>4, <2>5, <2>6, <2>7 DEF Books
<1> QED  BY <1>1, <1>3, <1>5, <1>6, <1>7 DEF RunCheck

\* An exception leaves the body, or an exit, for a reason of the pair's own.
LEMMA UnwindBooks ==
    ASSUME AccountInv, phase \in InPair, NEW to \in WaysOut, Unwind(to), Added,
           Broken(pair)'
    PROVE  Books'
<1>1. /\ pair \in Pairs /\ pair \notin queue /\ phase' \in WaysOut /\ raised' = TRUE
      /\ found' = {} /\ tables' = {} /\ table' = NONE /\ todo' = {}
      /\ UNCHANGED <<queue, pair, catalog, results>>
  BY DEF AccountInv, PairOK, PlaceOK, Unwind, outletVars
<1>2. PlaceOK'
  BY <1>1 DEF AccountInv, PlaceOK, InPair, WaysOut, Added
<1>3. LoopOK' /\ ProgressOK'
  BY <1>1 DEF LoopOK, ProgressOK, OncePerKey, WaysOut
<1>4. ExceptOK'
  BY <1>1 DEF ExceptOK, WaysOut
<1>5. PresenceOK'
  BY <1>1 DEF AccountInv, PresenceOK
<1>6. NothingLost'
  BY <1>1, NothingLostStays DEF AccountInv, Finished
<1> QED  BY <1>2, <1>3, <1>4, <1>5, <1>6 DEF Books

\* connect(), a listing or close() raises.
LEMMA FailureBooks ==
    ASSUME AccountInv,
           \/ ConnectFails
           \/ \E s \in Sides : \/ ListingFails(s)
                              \/ \E kind \in WholeKinds : CloseRaises(s, kind)
    PROVE  Books'
<1>1. PICK to \in WaysOut, s \in Sides, kind \in WholeKinds :
          phase \in InPair /\ Unwind(to) /\ Happens("connection", s, kind)
  BY DEF ConnectFails, ListingFails, CloseRaises, Closing, Outward, Opening, Sides,
         WaysOut, InPair, WholeKinds
<1>2. pair' = pair
  BY <1>1 DEF Unwind
<1>3. Added
  BY <1>1 DEF Happens, Added
<1>4. ConnectionBroke(pair)'
  <2> DEFINE new == [pair |-> pair, table |-> table, check |-> "connection",
                     side |-> s, kind |-> kind]
  <2>1. new \in incidents' /\ new.pair = pair /\ new.kind \in WholeKinds
    BY <1>1 DEF Happens
  <2> HIDE DEF new
  <2> QED  BY <1>2, <2>1 DEF ConnectionBroke
<1>5. Broken(pair)'
  BY <1>4 DEF Broken
<1>6. phase \in InPair /\ Unwind(to)
  BY <1>1
<1> QED  BY <1>3, <1>5, <1>6, UnwindBooks

LEMMA CloseBooks ==
    ASSUME AccountInv, NEW s \in Sides, Close(s)
    PROVE  Books'
<1>1. /\ phase \in WaysOut /\ phase' \in WaysOut /\ phase \in InPair
      /\ UNCHANGED <<queue, pair, catalog, tables, table, todo, found, raised,
                     incidents, results>>
  BY DEF Close, Closing, Outward, Sides, WaysOut, InPair, outletVars
<1>2. PlaceOK'
  BY <1>1 DEF AccountInv, PlaceOK, InPair, WaysOut
<1>3. LoopOK'
  BY <1>1 DEF AccountInv, LoopOK, WaysOut
<1>4. ProgressOK'
  <2>1. Covered(found)' = Covered(found) /\ Expected(pair)' = Expected(pair)
    BY <1>1 DEF Covered, Expected, Selected, Due
  <2> QED  BY <1>1, <2>1 DEF AccountInv, ProgressOK, WaysOut, OncePerKey
<1>5. ExceptOK'
  BY <1>1, ExceptStays DEF QueryAdded, Added
<1>6. PresenceOK'
  BY <1>1 DEF AccountInv, PresenceOK
<1>7. NothingLost'
  BY <1>1, NothingLostStays DEF AccountInv, Finished, Added
<1> QED  BY <1>2, <1>3, <1>4, <1>5, <1>6, <1>7 DEF Books

\* What the except clause returns.
LEMMA ConnectionErrorsFail ==
    ASSUME NEW p \in Pairs
    PROVE  /\ FailedAsWhole(p, ConnectionErrors(p)) /\ OncePerKey(ConnectionErrors(p))
           /\ \A r \in ConnectionErrors(p) : r.pair = p /\ r.check # "table_presence"
<1> DEFINE X == ConnectionErrors(p)
           names == IF Checks[p][NONE] = {} THEN {"connection"} ELSE Checks[p][NONE]
<1>1. \A r : r \in X <=> \E c \in names : r = CheckResult(p, NONE, c, "error")
  BY DEF ConnectionErrors
<1>2. PICK c : c \in names
  OBVIOUS
<1>3. X # {}
  <2> HIDE DEF X, names
  <2> QED  BY <1>1, <1>2
<1>4. \A r \in X : /\ r.table = NONE /\ r.status = "error" /\ r.check \in names
                  /\ r.pair = p
  <2> HIDE DEF X, names
  <2> QED  BY <1>1 DEF CheckResult
<1>5. ASSUME NEW d \in names
      PROVE  \E r \in X : r.table = NONE /\ r.check = d
  <2> DEFINE r == CheckResult(p, NONE, d, "error")
  <2>1. r \in X
    <3> HIDE DEF X, names
    <3> QED  BY <1>1
  <2>2. r.table = NONE /\ r.check = d
    BY DEF CheckResult
  <2> HIDE DEF r, X
  <2> QED  BY <2>1, <2>2
<1>6. Covered(X) = {<<NONE, d>> : d \in names}
  <2> HIDE DEF X, names
  <2> QED  BY <1>4, <1>5 DEF Covered
<1>7. OncePerKey(X)
  <2> HIDE DEF X, names
  <2> QED  BY <1>1 DEF OncePerKey, CheckResult
<1>8. "table_presence" \notin names
  BY RunnerAssumption
<1>9. \A r \in X : r.pair = p /\ r.check # "table_presence"
  BY <1>4, <1>8
<1>10. FailedAsWhole(p, X)
  <2> HIDE DEF X
  <2> QED  BY <1>3, <1>4, <1>6 DEF FailedAsWhole
<1> QED  BY <1>7, <1>9, <1>10

\* run_pair returns.
LEMMA LeaveBooks ==
    ASSUME AccountInv, LeavePair
    PROVE  Books'
<1> DEFINE X == IF raised THEN ConnectionErrors(pair) ELSE found
<1>1. /\ phase = "leave" /\ phase \in InPair /\ pair \in Pairs /\ phase \in WaysOut
      /\ pair' = NONE /\ phase' = "next" /\ found' = {} /\ raised' = FALSE
      /\ results' = results \cup X
      /\ UNCHANGED <<queue, catalog, tables, table, todo, incidents>>
  BY DEF LeavePair, InPair, outletVars, AccountInv, PairOK, WaysOut
<1>2. /\ \A r \in X : r.pair = pair
      /\ \A r \in X : r.check = "table_presence" => r.status # "ok"
      /\ OncePerKey(X)
      /\ IF Broken(pair) THEN FailedAsWhole(pair, X) ELSE Covered(X) = Expected(pair)
  <2>1. CASE raised
    <3>1. Broken(pair)
      BY <1>1, <2>1 DEF AccountInv, ExceptOK
    <3> QED  BY <1>1, <2>1, <3>1, ConnectionErrorsFail
  <2>2. CASE ~raised
    <3>1. X = found
      BY <2>2
    <3> HIDE DEF X
    <3>2. ~Broken(pair)
      BY <1>1, <2>2 DEF AccountInv, ExceptOK, Broken
    <3>3. OncePerKey(X) /\ Covered(X) = Expected(pair)
      BY <1>1, <2>2, <3>1 DEF AccountInv, ProgressOK
    <3>4. \A r \in X : r.pair = pair
      BY <1>1, <3>1 DEF AccountInv, PlaceOK
    <3>5. \A r \in X : r.check = "table_presence" => r.status # "ok"
      BY <3>1 DEF AccountInv, PresenceOK
    <3> QED  BY <3>2, <3>3, <3>4, <3>5
  <2> HIDE DEF X
  <2> QED  BY <2>1, <2>2
<1> HIDE DEF X
<1>3. PlaceOK'
  BY <1>1, <1>2 DEF AccountInv, PlaceOK, InPair
<1>4. LoopOK'
  BY <1>1 DEF AccountInv, LoopOK
<1>5. ProgressOK' /\ ExceptOK'
  BY <1>1 DEF ProgressOK, ExceptOK, WaysOut, InPair
<1>6. PresenceOK'
  BY <1>1, <1>2 DEF AccountInv, PresenceOK
<1>7. NothingLost'
  BY <1>1, <1>2, NothingLostExtends
<1> QED  BY <1>3, <1>4, <1>5, <1>6, <1>7 DEF Books

LEMMA RunSchemaPairBooks ==
    ASSUME AccountInv, RunSchemaPair
    PROVE  Books'
<1>1. ASSUME NEW S \in SUBSET Tables, NEW T \in SUBSET Tables, ListTables(S, T)
      PROVE  Books'
  <2>1. /\ phase = "list" /\ phase' = "tables"
        /\ catalog' = [catalog EXCEPT ![pair] = [source |-> S, target |-> T]]
        /\ tables' = S \cap Wanted[pair]
        /\ UNCHANGED <<queue, pair, table, todo, found, raised, incidents, results>>
    BY <1>1 DEF ListTables, outletVars
  <2>2. /\ pair \in Pairs /\ pair \in SchemaPairs
        /\ found = {} /\ todo = {} /\ table = NONE
    BY <2>1 DEF AccountInv, PairOK, LoopOK, InPair
  <2>3. Selected(pair)' = tables'
    BY <2>1, <2>2 DEF AccountInv, TypeOK, Selected
  <2>4. PlaceOK'
    BY <2>1 DEF AccountInv, PlaceOK, InPair
  <2>5. LoopOK'
    BY <2>1, <2>2, <2>3 DEF LoopOK
  <2>6. ProgressOK'
    BY <2>1, <2>2, <2>3
       DEF ProgressOK, Has, Owes, StillOwed, Due, OncePerKey, WaysOut
  <2>7. PresenceOK'
    BY <2>1 DEF AccountInv, PresenceOK
  <2>9. ExceptOK'
    <3>1. ~raised /\ (ConnectionBroke(pair)' <=> ConnectionBroke(pair))
      BY <2>1 DEF AccountInv, PlaceOK, ConnectionBroke
    <3> QED  BY <2>1, <2>3, <3>1 DEF AccountInv, ExceptOK, InPair, WaysOut
  <2>8. NothingLost'
    <3>1. \A p \in Pairs : Finished(p)' => Finished(p) /\ catalog'[p] = catalog[p]
      BY <2>1 DEF Finished, AccountInv, TypeOK
    <3> QED  BY <2>1, <3>1, NothingLostStays DEF AccountInv, Added
  <2> QED  BY <2>4, <2>5, <2>6, <2>7, <2>8, <2>9 DEF Books
<1>2. ASSUME NEW t \in Tables, MissingTable(t)
      PROVE  Books'
  <2> DEFINE new == CheckResult(pair, t, "table_presence", "fail")
  <2>1. /\ phase = "tables" /\ t \in tables /\ tables' = tables \ {t}
        /\ Target[pair][t] \notin catalog[pair].target
        /\ found' = found \cup {new}
        /\ UNCHANGED <<phase, queue, pair, catalog, table, todo, raised, incidents,
                       results>>
    BY <1>2 DEF MissingTable, outletVars
  <2>2. /\ new.pair = pair /\ new.table = t /\ new.check = "table_presence"
        /\ new.status = "fail"
    BY DEF CheckResult
  <2>3. /\ pair \in SchemaPairs /\ table = NONE /\ todo = {}
        /\ t \in Selected(pair) /\ Due(pair, t) = {"table_presence"}
    BY <2>1 DEF AccountInv, LoopOK, Due
  <2>4. PlaceOK'
    BY <2>1, <2>2 DEF AccountInv, PlaceOK, InPair
  <2>5. LoopOK'
    BY <2>1 DEF AccountInv, LoopOK, Selected
  <2>6. ~Has(found, t, "table_presence")
    BY <2>1, <2>3 DEF AccountInv, ProgressOK, StillOwed
  <2>7. ProgressOK'
    <3>1. ASSUME NEW u \in Tables \cup {NONE},
                 NEW c \in CheckNames \cup {"table_presence"}
          PROVE  (Has(found, u, c) <=> Owes(pair, u, c) /\ ~StillOwed(u, c))'
      <4>1. Has(found, u, c)' <=> Has(found, u, c) \/ (u = t /\ c = "table_presence")
        BY <2>1, <2>2 DEF Has
      <4>2. Owes(pair, u, c)' <=> Owes(pair, u, c)
        BY <2>1 DEF Owes, Selected, Due
      <4>3. StillOwed(u, c)' <=> StillOwed(u, c) /\ ~(u = t /\ c = "table_presence")
        BY <2>1, <2>3 DEF StillOwed, Due
      <4>4. Has(found, u, c) <=> Owes(pair, u, c) /\ ~StillOwed(u, c)
        BY <2>1 DEF AccountInv, ProgressOK
      <4> QED  BY <4>1, <4>2, <4>3, <4>4, <2>3 DEF Owes
    <3>2. OncePerKey(found)'
      BY <2>1, <2>2, <2>6 DEF AccountInv, ProgressOK, OncePerKey, Has
    <3>3. "connection" \notin {r.check : r \in found'}
      BY <2>1, <2>2 DEF AccountInv, ProgressOK
    <3> QED  BY <2>1, <3>1, <3>2, <3>3 DEF ProgressOK, WaysOut
  <2>8. PresenceOK'
    BY <2>1, <2>2 DEF AccountInv, PresenceOK
  <2>9. NothingLost'
    BY <2>1, NothingLostStays DEF AccountInv, Finished, Added
  <2>10. ExceptOK'
    <3>1. ~raised /\ (ConnectionBroke(pair)' <=> ConnectionBroke(pair))
          /\ Selected(pair)' = Selected(pair)
      BY <2>1 DEF AccountInv, PlaceOK, ConnectionBroke, Selected
    <3> QED  BY <2>1, <3>1 DEF AccountInv, ExceptOK, InPair, WaysOut
  <2> QED  BY <2>4, <2>5, <2>7, <2>8, <2>9, <2>10 DEF Books
<1>3. ASSUME NEW t \in Tables, StartTable(t)
      PROVE  Books'
  <2>1. /\ phase = "tables" /\ phase' = "check" /\ t \in tables
        /\ Target[pair][t] \in catalog[pair].target
        /\ tables' = tables \ {t} /\ table' = t /\ todo' = Checks[pair][t]
        /\ t \notin BadRule[pair]
        /\ UNCHANGED <<queue, pair, catalog, found, raised, incidents, results>>
    BY <1>3 DEF StartTable, outletVars
  <2>2. /\ pair \in SchemaPairs /\ table = NONE /\ todo = {}
        /\ tables \subseteq Selected(pair) /\ Due(pair, t) = Checks[pair][t]
    BY <2>1 DEF AccountInv, LoopOK, Due
  <2>3. PlaceOK'
    BY <2>1 DEF AccountInv, PlaceOK, InPair
  <2>4. LoopOK'
    BY <2>1, <2>2 DEF LoopOK, Selected
  <2>5. ProgressOK'
    <3>1. ASSUME NEW u \in Tables \cup {NONE},
                 NEW c \in CheckNames \cup {"table_presence"}
          PROVE  (Has(found, u, c) <=> Owes(pair, u, c) /\ ~StillOwed(u, c))'
      <4>1. Has(found, u, c)' <=> Has(found, u, c)
        BY <2>1 DEF Has
      <4>2. Owes(pair, u, c)' <=> Owes(pair, u, c)
        BY <2>1 DEF Owes, Selected, Due
      <4>3. StillOwed(u, c)' <=> StillOwed(u, c)
        BY <2>1, <2>2 DEF StillOwed, Due
      <4>4. Has(found, u, c) <=> Owes(pair, u, c) /\ ~StillOwed(u, c)
        BY <2>1 DEF AccountInv, ProgressOK
      <4> QED  BY <4>1, <4>2, <4>3, <4>4
    <3> QED  BY <2>1, <3>1 DEF ProgressOK, AccountInv, OncePerKey, WaysOut
  <2>6. PresenceOK'
    BY <2>1 DEF AccountInv, PresenceOK
  <2>7. NothingLost'
    BY <2>1, NothingLostStays DEF AccountInv, Finished, Added
  <2>8. ExceptOK'
    <3>1. ~raised /\ (ConnectionBroke(pair)' <=> ConnectionBroke(pair))
          /\ Selected(pair)' = Selected(pair)
      BY <2>1 DEF AccountInv, PlaceOK, ConnectionBroke, Selected
    <3> QED  BY <2>1, <3>1 DEF AccountInv, ExceptOK, InPair, WaysOut
  <2> QED  BY <2>3, <2>4, <2>5, <2>6, <2>7, <2>8 DEF Books
<1>4. ASSUME NEW t \in Tables, RuleRaises(t)
      PROVE  Books'
  <2>1. phase = "tables" /\ Unwind("close_target") /\ incidents' = incidents
    BY <1>4 DEF RuleRaises
  <2>2. pair \in SchemaPairs /\ t \in Selected(pair)
    BY <1>4 DEF RuleRaises, AccountInv, LoopOK
  <2>3. RuleBreaks(pair)
    BY <1>4, <2>2 DEF RuleRaises, RuleBreaks
  <2>4. Broken(pair)'
    BY <2>1, <2>3 DEF Unwind, Broken, RuleBreaks, Selected
  <2> QED  BY <2>1, <2>4, UnwindBooks DEF InPair, WaysOut, Added
<1>5. CASE EndTables
  <2>1. /\ phase = "tables" /\ phase' = "close_target" /\ tables = {}
        /\ found' = found \cup NothingMatched(pair)
        /\ UNCHANGED <<queue, pair, catalog, tables, table, todo, raised, incidents,
                       results>>
    BY <1>5 DEF EndTables, outletVars
  <2>2. pair \in Pairs /\ pair \in SchemaPairs /\ table = NONE /\ todo = {}
    BY <2>1 DEF AccountInv, PairOK, LoopOK, InPair
  <2>3. \A t \in Tables \cup {NONE}, c \in CheckNames \cup {"table_presence"} :
            Has(found, t, c) <=> t \in Selected(pair) /\ c \in Due(pair, t)
    BY <2>1, <2>2 DEF AccountInv, ProgressOK, Owes, StillOwed
  <2>4. \A r \in found : /\ r.table \in Tables \cup {NONE}
                         /\ r.check \in CheckNames \cup {"table_presence"}
    BY <2>1 DEF AccountInv, TypeOK, ProgressOK, Result
  <2>5. Selected(pair) \subseteq Tables
    BY <2>2 DEF AccountInv, TypeOK, Selected
  <2>6. \A t \in Selected(pair) :
            Due(pair, t) \subseteq CheckNames \cup {"table_presence"}
    BY <2>2, <2>5, RunnerAssumption DEF Due
  <2>7. Covered(found') = Expected(pair) /\ OncePerKey(found')
    <3>1. CASE Selected(pair) = {}
      <4>1. found = {}
        BY <2>3, <2>4, <3>1 DEF Has
      <4>2. found' = {CheckResult(pair, NONE, "table_presence", "warn")}
        BY <2>1, <3>1, <4>1 DEF NothingMatched
      <4> QED  BY <2>2, <3>1, <4>2 DEF Covered, Expected, OncePerKey, CheckResult
    <3>2. CASE Selected(pair) # {}
      <4>1. found' = found
        BY <2>1, <3>2 DEF NothingMatched
      <4>2. Covered(found) \subseteq Expected(pair)
        BY <2>2, <2>3, <2>4, <3>2 DEF Covered, Expected, Has
      <4>3. ASSUME NEW t \in Selected(pair), NEW c \in Due(pair, t)
            PROVE  <<t, c>> \in Covered(found)
        <5>1. t \in Tables \cup {NONE} /\ c \in CheckNames \cup {"table_presence"}
          BY <2>5, <2>6
        <5>2. Has(found, t, c)
          BY <2>3, <5>1
        <5> QED  BY <5>2 DEF Covered, Has
      <4>4. Expected(pair) \subseteq Covered(found)
        BY <2>2, <3>2, <4>3 DEF Expected
      <4> QED  BY <2>1, <4>1, <4>2, <4>4 DEF AccountInv, ProgressOK
    <3> QED  BY <3>1, <3>2
  <2>8. \A r \in NothingMatched(pair) :
            r.pair = pair /\ r.check = "table_presence" /\ r.status = "warn"
    BY DEF NothingMatched, CheckResult
  <2>9. PlaceOK'
    BY <2>1, <2>8 DEF AccountInv, PlaceOK, InPair
  <2>10. LoopOK'
    BY <2>1, <2>2 DEF LoopOK
  <2>11. ProgressOK'
    <3>1. Expected(pair)' = Expected(pair)
      BY <2>1 DEF Expected, Selected, Due
    <3> QED  BY <2>1, <2>7, <3>1 DEF ProgressOK
  <2>12. PresenceOK'
    BY <2>1, <2>8 DEF AccountInv, PresenceOK
  <2>13. NothingLost'
    BY <2>1, NothingLostStays DEF AccountInv, Finished, Added
  <2>14. ExceptOK'
    <3>1. ~raised /\ (ConnectionBroke(pair)' <=> ConnectionBroke(pair))
          /\ (RuleBreaks(pair)' <=> RuleBreaks(pair))
      BY <2>1 DEF AccountInv, PlaceOK, ConnectionBroke, RuleBreaks, Selected
    <3>2. ~RuleBreaks(pair)
      BY <2>1, <2>2 DEF AccountInv, ExceptOK, RuleBreaks
    <3> QED  BY <2>1, <3>1, <3>2 DEF AccountInv, ExceptOK, InPair, WaysOut
  <2> QED  BY <2>9, <2>10, <2>11, <2>12, <2>13, <2>14 DEF Books
<1> QED  BY <1>1, <1>2, <1>3, <1>4, <1>5 DEF RunSchemaPair

-----------------------------------------------------------------------------
(* The whole program *)

LEMMA NextBooks ==
    ASSUME AccountInv, [Next]_vars
    PROVE  Books'
<1> USE DEF outletVars, pairVars
\* Steps that touch neither the pair nor its results.
<1>1. ASSUME /\ UNCHANGED <<queue, pair, catalog, tables, table, todo, found,
                            raised, results, incidents>>
             /\ \/ phase' = phase
                \/ phase' \in {"done", "hung"}
                \/ phase \in {"load", "next"} /\ phase' \in {"next", "alert"}
                \/ phase = "alert" /\ phase' = "exit"
             /\ phase' \in {"alert", "exit"} /\ phase # phase' => queue = {}
      PROVE  Books'
  <2>1. PlaceOK'
    BY <1>1 DEF AccountInv, PlaceOK, InPair
  <2>2. LoopOK'
    BY <1>1 DEF AccountInv, LoopOK, Selected
  <2>3. ProgressOK'
    <3>1. CASE phase' = phase
      BY <1>1, <3>1 DEF AccountInv, ProgressOK, Has, Owes, StillOwed, Due,
                        Selected, Expected, Covered, OncePerKey
    <3>2. CASE phase' # phase
      BY <1>1, <3>2 DEF ProgressOK, WaysOut
    <3> QED  BY <3>1, <3>2
  <2>4. PresenceOK'
    BY <1>1 DEF AccountInv, PresenceOK
  <2>5. NothingLost'
    BY <1>1, NothingLostStays DEF AccountInv, Finished, Added
  <2>6. ExceptOK'
    <3>1. CASE phase' = phase /\ phase \in InPair
      BY <1>1, <3>1, ExceptStays DEF QueryAdded, Added
    <3>2. CASE phase' # phase \/ phase \notin InPair
      <4>1. phase' \notin InPair
        BY <1>1, <3>2 DEF InPair
      <4> QED  BY <4>1 DEF ExceptOK, InPair, WaysOut
    <3> QED  BY <3>1, <3>2
  <2> QED  BY <2>1, <2>2, <2>3, <2>4, <2>5, <2>6 DEF Books
<1>2. CASE Load \/ LoadFails \/ PrintResults \/ PrintFails \/ SendAlert \/ Exit
  BY <1>1, <1>2 DEF Load, LoadFails, PrintResults, PrintFails, SendAlert, Exit,
                    AccountInv, PlaceOK
<1>3. CASE Kill \/ Terminated \/ UNCHANGED vars \/ \E s \in Sides : QueryHangs(s)
  BY <1>1, <1>3 DEF Kill, Terminated, vars, QueryHangs
<1>4. ASSUME NEW p \in Pairs, StartPair(p)
      PROVE  Books'
  <2>1. /\ phase = "next" /\ p \in queue /\ phase' = "connect" /\ pair' = p
        /\ queue' = queue \ {p}
        /\ UNCHANGED <<catalog, tables, table, todo, found, raised, results, incidents>>
    BY <1>4 DEF StartPair
  <2>2. PlaceOK'
    BY <2>1 DEF AccountInv, PlaceOK, LoopOK, InPair
  <2>3. LoopOK'
    BY <2>1 DEF AccountInv, LoopOK
  <2>4. ProgressOK'
    BY <2>1 DEF ProgressOK, WaysOut
  <2>7. ExceptOK'
    BY <2>1 DEF AccountInv, PlaceOK, ExceptOK, ConnectionBroke, WaysOut
  <2>5. PresenceOK'
    BY <2>1 DEF AccountInv, PresenceOK
  <2>6. NothingLost'
    <3>1. pair = NONE /\ NONE \notin Pairs
      BY <2>1, RunnerAssumption DEF AccountInv, PlaceOK
    <3> QED  BY <2>1, <3>1, NothingLostStays DEF AccountInv, Finished, Added
  <2> QED  BY <2>2, <2>3, <2>4, <2>5, <2>6, <2>7 DEF Books
<1>5. CASE Open
  <2>1. /\ phase = "connect" /\ pair \in Pairs
        /\ UNCHANGED <<queue, pair, catalog, tables, table, found, raised, results,
                       incidents>>
        /\ \/ phase' = phase /\ todo' = todo
           \/ pair \in SchemaPairs /\ phase' = "list" /\ todo' = todo
           \/ /\ pair \notin SchemaPairs
              /\ phase' = "check" /\ todo' = Checks[pair][NONE]
    BY <1>5 DEF Open, AccountInv, PairOK, InPair
  <2>2. found = {} /\ tables = {} /\ table = NONE /\ todo = {}
    BY <2>1 DEF AccountInv, LoopOK
  <2>3. PlaceOK'
    BY <2>1 DEF AccountInv, PlaceOK, InPair
  <2>4. LoopOK'
    BY <2>1, <2>2 DEF LoopOK
  <2>5. ProgressOK'
    BY <2>1, <2>2 DEF ProgressOK, Has, Owes, StillOwed, OncePerKey, WaysOut
  <2>6. PresenceOK'
    BY <2>1 DEF AccountInv, PresenceOK
  <2>7. NothingLost'
    BY <2>1, NothingLostStays DEF AccountInv, Finished, Added
  <2>8. ExceptOK'
    <3>1. ~raised /\ ~ConnectionBroke(pair)
          /\ (ConnectionBroke(pair)' <=> ConnectionBroke(pair))
      BY <2>1 DEF AccountInv, PlaceOK, ExceptOK, ConnectionBroke, InPair
    <3> QED  BY <2>1, <3>1 DEF ExceptOK, WaysOut
  <2> QED  BY <2>3, <2>4, <2>5, <2>6, <2>7, <2>8 DEF Books
<1>6. CASE \/ ConnectFails
           \/ \E s \in Sides : \/ ListingFails(s)
                              \/ \E kind \in WholeKinds : CloseRaises(s, kind)
  BY <1>6, FailureBooks
<1>7. CASE RunSchemaPair
  BY <1>7, RunSchemaPairBooks
<1>8. CASE RunCheck
  BY <1>8, RunCheckBooks
<1>9. CASE LeavePair \/ \E s \in Sides : Close(s)
  BY <1>9, CloseBooks, LeaveBooks
<1> QED
  BY <1>2, <1>3, <1>4, <1>5, <1>6, <1>7, <1>8, <1>9 DEF Next, Command, RunPair

\* The inductive invariant holds in every state of every run.
THEOREM Accounts == Spec => []AccountInv
<1>1. Init => AccountInv
  <2> SUFFICES ASSUME Init PROVE AccountInv
    OBVIOUS
  <2>1. TypeOK /\ PairOK
    BY InitType
  <2>2. PlaceOK /\ LoopOK /\ ProgressOK /\ PresenceOK /\ ExceptOK
    BY DEF Init, PlaceOK, LoopOK, ProgressOK, PresenceOK, ExceptOK, InPair, WaysOut
  <2>3. NothingLost
    BY DEF Init, NothingLost, Finished
  <2> QED  BY <2>1, <2>2, <2>3 DEF AccountInv
<1>2. AccountInv /\ [Next]_vars => AccountInv'
  <2> SUFFICES ASSUME AccountInv, [Next]_vars PROVE AccountInv'
    OBVIOUS
  <2>1. TypeOK' /\ PairOK'
    BY NextType DEF AccountInv
  <2>2. Books'
    BY NextBooks
  <2> QED  BY <2>1, <2>2 DEF AccountInv, Books
<1> QED  BY <1>1, <1>2, PTL DEF Spec

\* Every pair that is over has exactly one result for everything it owes, or
\* failed as a whole and says so -- whatever connections, statements, tables
\* and other pairs did meanwhile.
THEOREM ReportIsComplete == Spec => []NothingLost
<1>1. AccountInv => NothingLost
  BY DEF AccountInv
<1> QED  BY <1>1, Accounts, PTL

-----------------------------------------------------------------------------
(* Exit code 0 *)

\* How a run comes to its exit code.
EndOK ==
    /\ exit # StillRunning => phase = "done"
    /\ exit = 0 => /\ queue = {} /\ pair = NONE /\ found = {}
                   /\ \A r \in results : r.status = "ok"

\* An incident leaves an ERROR of its pair behind, or its exception is on its way.
Told == \A i \in incidents :
            \/ \E r \in found \cup results : r.pair = i.pair /\ r.status = "error"
            \/ i.pair = pair /\ raised

LEMMA NextEnd ==
    ASSUME AccountInv, EndOK, [Next]_vars
    PROVE  EndOK'
<1> USE DEF StillRunning, Killed, outletVars, pairVars
<1>1. CASE Exit
  <2> DEFINE S == {r.status : r \in results}
  <2>1. S \in SUBSET Statuses
    BY DEF AccountInv, TypeOK, Result
  <2>2. ASSUME exit' = 0
        PROVE  \A r \in results : r.status = "ok"
    <3>1. exit_code(worst_status(S)) = 0
      BY <1>1, <2>2 DEF Exit
    <3>2. S \cap {"fail", "error"} = {} /\ "warn" \notin S
      <4> HIDE DEF S
      <4> QED  BY <2>1, <3>1, CodeOfWorst
    <3>3. ASSUME NEW r \in results
          PROVE  r.status = "ok"
      <4>1. r.status \in S
        OBVIOUS
      <4> QED  BY <2>1, <3>2, <4>1 DEF Statuses
    <3> QED  BY <3>3
  <2> QED  BY <1>1, <2>2 DEF Exit, EndOK, AccountInv, PlaceOK, LoopOK
<1>2. CASE LoadFails \/ PrintFails \/ Kill
  BY <1>2 DEF LoadFails, PrintFails, Kill, EndOK
<1>3. CASE UNCHANGED vars \/ Terminated
  BY <1>3 DEF vars, Terminated, EndOK
<1>4. ASSUME exit' = exit, phase # "done"
      PROVE  EndOK'
  BY <1>4 DEF EndOK
<1>5. CASE Load \/ PrintResults \/ SendAlert \/ \E s \in Sides : QueryHangs(s)
  BY <1>4, <1>5 DEF Load, PrintResults, SendAlert, QueryHangs
<1>6. CASE RunPair
  BY <1>4, <1>6, PairStepsAreSilent DEF AccountInv, InPair
<1> QED  BY <1>1, <1>2, <1>3, <1>5, <1>6 DEF Next, Command

\* Results once found are told until an exception takes them along.
LEMMA ToldStays ==
    ASSUME Told, incidents' = incidents,
           \/ found \subseteq found' /\ results \subseteq results'
              /\ (raised => raised' /\ pair' = pair)
           \/ /\ raised' /\ pair' = pair /\ results' = results
              /\ \A r \in found : r.pair = pair
    PROVE  Told'
BY DEF Told

\* A step that meets an incident ends a check with ERROR, or raises.
LEMMA ToldAdds ==
    ASSUME Told, Added, pair' = pair,
           \A r \in found : r.pair = pair,
           \/ raised' /\ results' = results
           \/ /\ found \subseteq found' /\ results' = results /\ raised' = raised
              /\ \E r \in found' : r.pair = pair /\ r.status = "error"
    PROVE  Told'
<1> SUFFICES ASSUME NEW i \in incidents'
             PROVE  \/ \E r \in found' \cup results' :
                           r.pair = i.pair /\ r.status = "error"
                    \/ i.pair = pair' /\ raised'
  BY DEF Told
<1>1. CASE i \in incidents
  BY <1>1 DEF Told
<1>2. CASE i \notin incidents
  BY <1>2 DEF Added
<1> QED  BY <1>1, <1>2

LEMMA RunCheckTold ==
    ASSUME AccountInv, Told, RunCheck
    PROVE  Told'
<1> USE DEF outletVars
<1>1. \A r \in found : r.pair = pair
  BY DEF RunCheck, UnknownCheck, Skip, CheckRaises, MissingColumn, SessionDead, Evaluate,
         QueryFails, EndChecks, Running, AccountInv, PlaceOK, InPair
<1>2. ASSUME NEW c, NEW v, Judge(c, v), incidents' = incidents
      PROVE  Told'
  BY <1>2, ToldStays DEF Judge
<1>3. ASSUME NEW c, NEW s, NEW k, Judge(c, "error"), Happens(c, s, k)
      PROVE  Told'
  <2> DEFINE new == CheckResult(pair, table, c, "error")
  <2>1. new.pair = pair /\ new.status = "error"
    BY DEF CheckResult
  <2>2. /\ found' = found \cup {new} /\ results' = results /\ raised' = raised
        /\ pair' = pair
    BY <1>3 DEF Judge
  <2>3. Added
    BY <1>3 DEF Happens, Added
  <2> HIDE DEF new
  <2>4. \E r \in found' : r.pair = pair /\ r.status = "error"
    BY <2>1, <2>2
  <2> QED  BY <1>1, <2>2, <2>3, <2>4, ToldAdds
<1>4. ASSUME NEW c \in CheckNames,
             UnknownCheck(c) \/ Skip(c) \/ CheckRaises(c) \/ SessionDead(c)
             \/ \E v \in Statuses : Evaluate(c, v)
      PROVE  Told'
  BY <1>2, <1>4 DEF UnknownCheck, Skip, CheckRaises, SessionDead, Evaluate
<1>5. ASSUME NEW c \in CheckNames, MissingColumn(c)  PROVE Told'
  BY <1>3, <1>5 DEF MissingColumn
<1>6. ASSUME NEW c \in CheckNames, NEW s \in Sides,
             NEW state \in {"open", "aborted", "lost"}, QueryFails(c, s, state)
      PROVE  Told'
  BY <1>3, <1>6 DEF QueryFails
<1>7. CASE EndChecks
  BY <1>7, ToldStays DEF EndChecks
<1> QED  BY <1>4, <1>5, <1>6, <1>7 DEF RunCheck

LEMMA NextTold ==
    ASSUME AccountInv, Told, [Next]_vars
    PROVE  Told'
<1> USE DEF outletVars, pairVars
<1>0. ASSUME incidents' = incidents, found \subseteq found', results' = results,
             raised' = raised, pair' = pair
      PROVE  Told'
  BY <1>0, ToldStays
<1>1. CASE \/ Load \/ LoadFails \/ PrintResults \/ PrintFails \/ SendAlert \/ Exit
           \/ Kill \/ Terminated \/ UNCHANGED vars
           \/ \E s \in Sides : QueryHangs(s) \/ Close(s)
           \/ Open
  BY <1>0, <1>1
     DEF Load, LoadFails, PrintResults, PrintFails, SendAlert, Exit, Kill, Terminated,
         vars, QueryHangs, Close, Open
<1>8. CASE \/ \E S, T \in SUBSET Tables : ListTables(S, T)
           \/ \E t \in Tables : MissingTable(t) \/ StartTable(t)
           \/ EndTables
  BY <1>0, <1>8 DEF ListTables, MissingTable, StartTable, EndTables
<1>2. ASSUME NEW p \in Pairs, StartPair(p)  PROVE Told'
  BY <1>2, ToldStays DEF StartPair, AccountInv, PlaceOK
<1>3. ASSUME NEW to, phase \in InPair, Unwind(to), Added
      PROVE  Told'
  <2>1. /\ raised' /\ pair' = pair /\ results' = results
        /\ \A r \in found : r.pair = pair
    BY <1>3 DEF Unwind, AccountInv, PlaceOK
  <2> QED  BY <1>3, <2>1, ToldAdds
<1>4. ASSUME NEW t \in Tables, RuleRaises(t)  PROVE Told'
  BY <1>3, <1>4 DEF RuleRaises, Added, InPair
<1>5. CASE \/ ConnectFails
           \/ \E s \in Sides : \/ ListingFails(s)
                              \/ \E kind \in WholeKinds : CloseRaises(s, kind)
  <2>1. PICK to \in WaysOut, s \in Sides, kind \in WholeKinds :
            phase \in InPair /\ Unwind(to) /\ Happens("connection", s, kind)
    BY <1>5 DEF ConnectFails, ListingFails, CloseRaises, Closing, Opening, Sides, InPair,
                Outward, WaysOut, WholeKinds
  <2>2. Added
    BY <2>1 DEF Happens, Added
  <2> QED  BY <1>3, <2>1, <2>2
<1>6. CASE LeavePair
  <2>1. CASE ~raised
    BY <1>6, <2>1, ToldStays DEF LeavePair, Told
  <2>2. CASE raised
    <3>1. /\ pair \in Pairs /\ found = {} /\ found' = {} /\ incidents' = incidents
          /\ results' = results \cup ConnectionErrors(pair)
      BY <1>6, <2>2 DEF LeavePair, AccountInv, PairOK, ExceptOK, InPair
    <3>2. \E r \in ConnectionErrors(pair) : r.pair = pair /\ r.status = "error"
      BY <3>1, ConnectionErrorsFail DEF FailedAsWhole
    <3> QED  BY <3>1, <3>2 DEF Told
  <2> QED  BY <2>1, <2>2
<1>7. CASE RunCheck
  BY <1>7, RunCheckTold
<1> QED
  BY <1>1, <1>2, <1>4, <1>5, <1>6, <1>7, <1>8 DEF Next, Command, RunPair, RunSchemaPair

\* A report without problems, from a run that went through every pair, says
\* that nothing went wrong, that everything owed was checked and that every
\* schema pair found a table.
LEMMA GreenReport ==
    ASSUME AccountInv, EndOK, Told
    PROVE  GreenIsEarned
<1> SUFFICES ASSUME exit = 0
             PROVE  /\ incidents = {}
                    /\ \A p \in Pairs :
                          /\ Covered(ResultsOf(p)) = Expected(p)
                          /\ p \in SchemaPairs => Selected(p) # {}
                          /\ \A r \in ResultsOf(p) : r.status = "ok"
  BY DEF GreenIsEarned
<1>1. /\ queue = {} /\ pair = NONE /\ NONE \notin Pairs /\ found = {}
      /\ \A r \in results : r.status = "ok"
  BY RunnerAssumption DEF EndOK
<1>2. ASSUME NEW i \in incidents
      PROVE  FALSE
  <2>1. i.pair \in Pairs
    BY DEF AccountInv, TypeOK, Incident
  <2> QED  BY <1>1, <2>1 DEF Told
<1>3. ASSUME NEW p \in Pairs
      PROVE  /\ Covered(ResultsOf(p)) = Expected(p)
             /\ p \in SchemaPairs => Selected(p) # {}
             /\ \A r \in ResultsOf(p) : r.status = "ok"
  <2>1. \A r \in ResultsOf(p) : r.status = "ok"
    BY <1>1 DEF ResultsOf
  <2>2. Accounted(p)
    BY <1>1 DEF AccountInv, NothingLost, Finished
  <2>3. ~FailedAsWhole(p, ResultsOf(p))
    BY <2>1 DEF FailedAsWhole
  <2>4. Covered(ResultsOf(p)) = Expected(p)
    BY <2>2, <2>3 DEF Accounted
  <2>5. ASSUME p \in SchemaPairs, Selected(p) = {}
        PROVE  FALSE
    <3>1. <<NONE, "table_presence">> \in Covered(ResultsOf(p))
      BY <2>4, <2>5 DEF Expected
    <3>2. PICK r \in ResultsOf(p) : r.check = "table_presence"
      BY <3>1 DEF Covered
    <3>3. r.status # "ok"
      BY <3>2 DEF AccountInv, PresenceOK, ResultsOf
    <3> QED  BY <2>1, <3>2, <3>3
  <2> QED  BY <2>1, <2>4, <2>5
<1> QED  BY <1>2, <1>3

\* Exit code 0 says that nothing went wrong under the run, that every pair ran to
\* its end, that every schema pair selected a table, and that everything the run
\* owes came out OK.
THEOREM GreenTheorem == Spec => []GreenIsEarned
<1>1. Init => EndOK /\ Told
  BY DEF Init, EndOK, Told, StillRunning
<1>2. AccountInv /\ EndOK /\ Told /\ [Next]_vars => (EndOK /\ Told)'
  BY NextEnd, NextTold
<1>3. AccountInv /\ EndOK /\ Told => GreenIsEarned
  BY GreenReport
<1> QED  BY <1>1, <1>2, <1>3, Accounts, PTL DEF Spec

-----------------------------------------------------------------------------
(* The sessions *)

\* The target's session opens last and is closed first, and both are closed
\* when the pair is left.
SessionPlaces ==
    /\ pair = NONE => \A s \in Sides : session[s] = "closed"
    /\ phase = "leave" => \A s \in Sides : session[s] = "closed"
    /\ phase \in {"connect", "close_source"} => session["target"] = "closed"

LEMMA NextSessionPlaces ==
    ASSUME AccountInv, SessionPlaces, [Next]_vars
    PROVE  SessionPlaces'
<1> USE DEF SessionPlaces, outletVars, pairVars
<1>0. /\ NONE \notin Pairs /\ session \in [Sides -> SessionStates]
      /\ \A s \in Sides : s = "source" \/ s = "target"
      /\ phase \in InPair => pair \in Pairs
      /\ phase \in {"next", "alert", "exit"} => pair = NONE
  BY RunnerAssumption DEF AccountInv, TypeOK, PairOK, PlaceOK, Sides
<1>1. CASE \/ Load \/ LoadFails \/ PrintResults \/ PrintFails \/ SendAlert \/ Exit
           \/ Kill \/ Terminated \/ UNCHANGED vars
  BY <1>1 DEF Load, LoadFails, PrintResults, PrintFails, SendAlert, Exit, Kill,
              Terminated, vars
<1>2. ASSUME NEW p \in Pairs, StartPair(p)  PROVE SessionPlaces'
  BY <1>0, <1>2 DEF StartPair, Sides
<1>3. CASE Open
  BY <1>0, <1>3 DEF Open, Opening, InPair
<1>4. CASE ConnectFails
  BY <1>0, <1>4 DEF ConnectFails, Opening, Unwind, InPair
<1>5. ASSUME NEW s \in Sides,
             Close(s) \/ \E kind \in WholeKinds : CloseRaises(s, kind)
      PROVE  SessionPlaces'
  <2>1. /\ session' = [session EXCEPT ![s] = "closed"] /\ pair' = pair
        /\ phase = Closing[s] /\ phase' = Outward(s, TRUE)
    BY <1>5 DEF Close, CloseRaises, Unwind, Outward
  <2>2. CASE s = "target"
    BY <1>0, <2>1, <2>2 DEF Closing, Outward, InPair, Sides
  <2>3. CASE s = "source"
    BY <1>0, <2>1, <2>3 DEF Closing, Outward, InPair, Sides
  <2> QED  BY <1>0, <2>2, <2>3
<1>6. CASE \/ \E s \in Sides : ListingFails(s) \/ QueryHangs(s)
           \/ RunSchemaPair
  BY <1>0, <1>6 DEF ListingFails, QueryHangs, Unwind, RunSchemaPair, ListTables,
                    MissingTable, StartTable, RuleRaises, EndTables, InPair
<1>7. CASE LeavePair
  BY <1>7 DEF LeavePair
<1>8. CASE RunCheck
  <2>1. phase = "check" /\ pair' = pair /\ phase' \in {"check", "tables", "close_target"}
    BY <1>8 DEF RunCheck, UnknownCheck, Skip, CheckRaises, MissingColumn, SessionDead,
                Evaluate, QueryFails, EndChecks, Running, Judge
  <2> QED  BY <1>0, <2>1 DEF InPair
<1> QED
  BY <1>1, <1>2, <1>3, <1>4, <1>5, <1>6, <1>7, <1>8 DEF Next, Command, RunPair

LEMMA Places == Spec => []SessionPlaces
<1>1. Init => SessionPlaces
  BY DEF Init, SessionPlaces
<1>2. AccountInv /\ SessionPlaces /\ [Next]_vars => SessionPlaces'
  BY NextSessionPlaces
<1> QED  BY <1>1, <1>2, Accounts, PTL DEF Spec

\* Between two pairs and after the last no session is open, whichever connect,
\* listing, check or close failed; and of a session that its own close() left
\* open at the server the report tells, the pair having failed as a whole.
THEOREM SessionsTheorem == Spec => []SessionsReleased
<1>1. AccountInv /\ SessionPlaces => SessionsReleased
  <2> SUFFICES ASSUME AccountInv, SessionPlaces,
                      NEW i \in incidents, i.kind = "leak", Finished(i.pair)
               PROVE  FailedAsWhole(i.pair, ResultsOf(i.pair))
    BY DEF SessionsReleased, SessionPlaces
  <2>1. Broken(i.pair)
    BY DEF Broken, ConnectionBroke, WholeKinds
  <2>2. Accounted(i.pair)
    BY DEF AccountInv, NothingLost, TypeOK, Incident
  <2> QED  BY <2>1, <2>2 DEF Accounted
<1> QED  BY <1>1, Accounts, Places, PTL

-----------------------------------------------------------------------------
(***************************************************************************)
(* Errors stay where they arose, and a missing column is noticed -- unless *)
(* it is a PostgreSQL target that lacks the column, whose transaction the  *)
(* first check to name the column aborts for all that follow.              *)
(***************************************************************************)

NoPostgresLacks ==
    \A p \in Pairs : Engine[p]["target"] = "postgres" => Lacking[p] = {}

\* The body of the `with` clauses has two open sessions, but for those that an
\* incident of this very pair broke.
HealthOK ==
    /\ phase = "connect" => session["source"] \in {"closed", "open"}
    /\ phase \in {"list", "tables", "check"} =>
           \A s \in Sides :
               \/ session[s] = "open"
               \/ /\ session[s] \in {"aborted", "lost"}
                  /\ \E i \in incidents : i.pair = pair /\ Fatal(i)

\* The checks that trip over a missing column name it, and schema_drift does not.
ColumnsOK == \A i \in incidents : i.kind = "column" =>
    i.side = "target" /\ i.table \in Lacking[i.pair] /\ i.check # "schema_drift"

\* ErrorsStayLocal and MissingColumnIsFail, of one result.
Explained(r) == r.status = "error" =>
    \/ r.table = NONE /\ Broken(r.pair)
    \/ r.check \notin Registered \/ r.check \in Raising[r.pair][r.table]
    \/ \E i \in incidents : Hits(i, r)

Noticed(r) ==
    r.check = "schema_drift" /\ r.table \in Lacking[r.pair] =>
        \/ r.status = "fail" \/ Broken(r.pair)
        \/ "schema_drift" \in Raising[r.pair][r.table]
        \/ \E i \in incidents : Hits(i, r)

\* Also of the results the pair has found so far.
LocalOK == \A r \in found \cup results : Explained(r) /\ Noticed(r)

\* A reason once given is never withdrawn.
LEMMA ReasonsStay ==
    ASSUME LocalOK, incidents \subseteq incidents',
           NEW r \in found \cup results, catalog'[r.pair] = catalog[r.pair]
    PROVE  Explained(r)' /\ Noticed(r)'
<1>1. RuleBreaks(r.pair)' = RuleBreaks(r.pair)
  BY DEF RuleBreaks, Selected
<1>2. ConnectionBroke(r.pair) => ConnectionBroke(r.pair)'
  BY DEF ConnectionBroke
<1>3. Broken(r.pair) => Broken(r.pair)'
  BY <1>1, <1>2 DEF Broken
<1>4. (\E i \in incidents : Hits(i, r)) => \E i \in incidents' : Hits(i, r)'
  BY DEF Hits, Fatal
<1> QED  BY <1>3, <1>4 DEF LocalOK, Explained, Noticed

\* A step that finds and reports nothing new.
LEMMA LocalStays ==
    ASSUME LocalOK, incidents \subseteq incidents', catalog' = catalog,
           found' \cup results' \subseteq found \cup results
    PROVE  LocalOK'
BY ReasonsStay DEF LocalOK

LEMMA JudgeLocal ==
    ASSUME LocalOK, NEW c, NEW s, Judge(c, s), incidents \subseteq incidents',
           Explained(CheckResult(pair, table, c, s))',
           Noticed(CheckResult(pair, table, c, s))'
    PROVE  LocalOK'
<1> DEFINE new == CheckResult(pair, table, c, s)
<1>1. /\ found' = found \cup {new} /\ results' = results /\ catalog' = catalog
      /\ pair' = pair /\ table' = table
  BY DEF Judge
<1>2. new' = new
  BY <1>1 DEF CheckResult
<1>3. Explained(new)' /\ Noticed(new)'
  OBVIOUS
<1>4. \A r \in found \cup results : Explained(r)' /\ Noticed(r)'
  BY <1>1, ReasonsStay
<1> HIDE DEF new
<1> QED  BY <1>1, <1>2, <1>3, <1>4 DEF LocalOK

\* A check whose query fails, or finds its session dead, has an incident to blame.
LEMMA BlamedLocal ==
    ASSUME LocalOK, NEW c, Judge(c, "error"), incidents \subseteq incidents',
           \E i \in incidents' :
               i.pair = pair /\ (Fatal(i) \/ (i.table = table /\ i.check = c))
    PROVE  LocalOK'
<1> DEFINE new == CheckResult(pair, table, c, "error")
<1>1. /\ new.pair = pair /\ new.table = table /\ new.check = c
      /\ pair' = pair /\ table' = table
  BY DEF CheckResult, Judge
<1>2. new' = new
  BY <1>1 DEF CheckResult
<1> HIDE DEF new
<1>3. \E i \in incidents' : Hits(i, new)'
  <2>1. PICK i \in incidents' :
            i.pair = pair /\ (Fatal(i) \/ (i.table = table /\ i.check = c))
    OBVIOUS
  <2>2. Fatal(i)' <=> Fatal(i)
    BY DEF Fatal
  <2> QED  BY <1>1, <1>2, <2>1, <2>2 DEF Hits
<1>4. Explained(new)' /\ Noticed(new)'
  BY <1>3 DEF Explained, Noticed
<1> QED  BY <1>4, JudgeLocal DEF new

\* Incidents already met still explain a broken session; new ones explain theirs.
LEMMA HealthStays ==
    ASSUME HealthOK, incidents \subseteq incidents', pair' = pair, phase = "check",
           phase' \notin {"connect", "list"},
           \A s \in Sides :
               \/ session'[s] = session[s] \/ session'[s] = "open"
               \/ /\ session'[s] \in {"aborted", "lost"}
                  /\ \E i \in incidents' : i.pair = pair /\ Fatal(i)
    PROVE  HealthOK'
BY DEF HealthOK, Fatal

\* The checks: whatever one of them meets, its ERROR has a reason, and only an
\* incident leaves a session unusable.
LEMMA RunCheckLocal ==
    ASSUME AccountInv, HealthOK, LocalOK, ColumnsOK, RunCheck
    PROVE  HealthOK' /\ LocalOK' /\ ColumnsOK'
<1> USE DEF outletVars
<1>1. /\ phase = "check" /\ pair \in Pairs /\ table \in Tables \cup {NONE}
      /\ session \in [Sides -> SessionStates] /\ \A s \in Sides : s = "source" \/ s = "target"
  <2>1. phase = "check"
    BY DEF RunCheck, UnknownCheck, Skip, CheckRaises, MissingColumn, SessionDead, Evaluate,
           QueryFails, EndChecks, Running
  <2> QED  BY <2>1 DEF AccountInv, PairOK, InPair, TypeOK, Sides
\* The checks that leave sessions and history alone.
<1>2. ASSUME NEW c, NEW v, Judge(c, v), UNCHANGED <<session, incidents>>
      PROVE  HealthOK' /\ ColumnsOK'
  BY <1>1, <1>2, HealthStays DEF Judge, ColumnsOK
<1>3. ASSUME NEW c \in CheckNames, UnknownCheck(c)
      PROVE  HealthOK' /\ LocalOK' /\ ColumnsOK'
  <2>1. /\ Judge(c, "error") /\ c \notin Registered
        /\ UNCHANGED <<session, incidents>>
    BY <1>3 DEF UnknownCheck
  <2>2. c # "schema_drift"
    BY <2>1 DEF Registered, Verdicts
  <2>3. LocalOK'
    BY <2>1, <2>2, JudgeLocal DEF Explained, Noticed, CheckResult
  <2> QED  BY <1>2, <2>1, <2>3
<1>4. ASSUME NEW c \in CheckNames, Skip(c)
      PROVE  HealthOK' /\ LocalOK' /\ ColumnsOK'
  <2>1. Judge(c, "ok") /\ c # "schema_drift" /\ UNCHANGED <<session, incidents>>
    BY <1>4 DEF Skip
  <2>2. LocalOK'
    BY <2>1, JudgeLocal DEF Explained, Noticed, CheckResult
  <2> QED  BY <1>2, <2>1, <2>2
<1>5. ASSUME NEW c \in CheckNames, CheckRaises(c)
      PROVE  HealthOK' /\ LocalOK' /\ ColumnsOK'
  <2>1. /\ Judge(c, "error") /\ c \in Raising[pair][table]
        /\ UNCHANGED <<session, incidents, pair, table>>
    BY <1>5 DEF CheckRaises, Judge
  <2>2. LocalOK'
    BY <2>1, JudgeLocal DEF Explained, Noticed, CheckResult
  <2> QED  BY <1>2, <2>1, <2>2
<1>6. ASSUME NEW c \in CheckNames, NEW v \in Statuses, Evaluate(c, v)
      PROVE  HealthOK' /\ LocalOK' /\ ColumnsOK'
  <2>1. /\ Judge(c, v) /\ c \in Registered
        /\ v \in IF c = "schema_drift" /\ table \in Lacking[pair] THEN {"fail"}
                 ELSE Verdicts[c]
        /\ UNCHANGED <<session, incidents, pair, table>>
    BY <1>6 DEF Evaluate, Judge, Running
  <2>2. v # "error"
    BY <2>1 DEF Registered, Verdicts
  <2>3. LocalOK'
    BY <2>1, <2>2, JudgeLocal DEF Explained, Noticed, CheckResult
  <2> QED  BY <1>2, <2>1, <2>3
<1>7. ASSUME NEW c \in CheckNames, SessionDead(c)
      PROVE  HealthOK' /\ LocalOK' /\ ColumnsOK'
  <2>1. /\ Judge(c, "error") /\ UNCHANGED <<session, incidents>>
        /\ \E s \in Sides : session[s] # "open"
    BY <1>7 DEF SessionDead
  <2>2. \E i \in incidents : i.pair = pair /\ Fatal(i)
    BY <1>1, <2>1 DEF HealthOK
  <2>3. LocalOK'
    BY <2>1, <2>2, BlamedLocal
  <2> QED  BY <1>2, <2>1, <2>3
<1>8. ASSUME NEW c, NEW s \in Sides, NEW k, NEW state, Judge(c, "error"), Happens(c, s, k),
             session' = [session EXCEPT ![s] = state],
             k = "column" => s = "target" /\ table \in Lacking[pair] /\ c # "schema_drift",
             \/ state = "open"
             \/ state = "aborted" /\ k \in {"rejected", "column"}
                                  /\ Engine[pair][s] = "postgres"
             \/ state = "lost" /\ k = "lost"
      PROVE  HealthOK' /\ LocalOK' /\ ColumnsOK'
  <2> DEFINE i == [pair |-> pair, table |-> table, check |-> c, side |-> s, kind |-> k]
  <2>1. /\ i.pair = pair /\ i.table = table /\ i.check = c /\ i.side = s /\ i.kind = k
        /\ incidents' = incidents \cup {i}
    BY <1>8 DEF Happens
  <2> HIDE DEF i
  <2>2. LocalOK'
    BY <1>8, <2>1, BlamedLocal
  <2>3. state # "open" => state \in {"aborted", "lost"} /\ Fatal(i)
    BY <1>8, <2>1 DEF Fatal
  <2>4. \A x \in Sides : \/ session'[x] = session[x] \/ session'[x] = "open"
                         \/ session'[x] = state /\ state # "open"
    BY <1>1, <1>8
  <2>5. HealthOK'
    BY <1>1, <1>8, <2>1, <2>3, <2>4, HealthStays DEF Judge
  <2>6. ColumnsOK'
    BY <1>8, <2>1 DEF ColumnsOK
  <2> QED  BY <2>2, <2>5, <2>6
<1>9. ASSUME NEW c \in CheckNames, MissingColumn(c)
      PROVE  HealthOK' /\ LocalOK' /\ ColumnsOK'
  <2>1. /\ Judge(c, "error") /\ c \in Naming[pair] /\ table \in Lacking[pair]
        /\ Happens(c, "target", "column")
        /\ session' = [session EXCEPT !["target"] = AfterRejection(pair, "target")]
    BY <1>9 DEF MissingColumn, NamesMissing
  <2>2. c # "schema_drift"
    BY <1>1, <2>1, RunnerAssumption
  <2>3. \/ AfterRejection(pair, "target") = "open"
        \/ /\ AfterRejection(pair, "target") = "aborted"
           /\ Engine[pair]["target"] = "postgres"
    BY DEF AfterRejection
  <2>4. "target" \in Sides
    BY DEF Sides
  <2> QED  BY <1>8, <2>1, <2>2, <2>3, <2>4
<1>10. ASSUME NEW c \in CheckNames, NEW s \in Sides,
              NEW state \in {"open", "aborted", "lost"}, QueryFails(c, s, state)
       PROVE  HealthOK' /\ LocalOK' /\ ColumnsOK'
  <2> DEFINE k == IF state = "lost" THEN "lost" ELSE "rejected"
  <2>1. /\ Judge(c, "error") /\ Happens(c, s, k)
        /\ session' = [session EXCEPT ![s] = state]
        /\ state = AfterRejection(pair, s) \/ state = "lost"
    BY <1>10 DEF QueryFails
  <2>2. \/ state = "open"
        \/ state = "aborted" /\ k = "rejected" /\ Engine[pair][s] = "postgres"
        \/ state = "lost" /\ k = "lost"
    BY <2>1 DEF AfterRejection
  <2>3. k # "column"
    OBVIOUS
  <2> HIDE DEF k
  <2> QED  BY <1>8, <2>1, <2>2, <2>3
<1>11. CASE EndChecks
  <2>1. /\ UNCHANGED <<session, incidents, pair, found, results, catalog>>
        /\ phase' \in {"tables", "close_target"}
    BY <1>11 DEF EndChecks
  <2> QED  BY <1>1, <2>1, LocalStays, HealthStays DEF ColumnsOK
<1> QED
  BY <1>3, <1>4, <1>5, <1>6, <1>7, <1>9, <1>10, <1>11 DEF RunCheck

\* The except clause reports errors of a pair that has a reason for them.
LEMMA LeaveLocal ==
    ASSUME AccountInv, LocalOK, LeavePair
    PROVE  HealthOK' /\ LocalOK'
<1>1. /\ found' = {} /\ phase' = "next" /\ phase \in InPair /\ pair \in Pairs
      /\ results' = results \cup (IF raised THEN ConnectionErrors(pair) ELSE found)
      /\ UNCHANGED <<catalog, incidents>>
  BY DEF LeavePair, InPair, AccountInv, PairOK
<1>2. HealthOK'
  BY <1>1 DEF HealthOK
<1>3. CASE ~raised
  BY <1>1, <1>2, <1>3, LocalStays
<1>4. CASE raised
  <2>1. found = {}
    BY <1>1, <1>4 DEF AccountInv, ExceptOK
  <2>2. ASSUME NEW r \in ConnectionErrors(pair)
        PROVE  Explained(r)' /\ Noticed(r)'
    <3>1. r.pair = pair /\ r.table = NONE
      BY <1>1, ConnectionErrorsFail DEF FailedAsWhole
    <3>2. Broken(r.pair)'
      <4>1. Broken(r.pair)
        BY <1>1, <1>4, <3>1 DEF AccountInv, ExceptOK
      <4> QED  BY <1>1, <4>1 DEF Broken, ConnectionBroke, RuleBreaks, Selected
    <3> QED  BY <3>1, <3>2 DEF Explained, Noticed
  <2>3. \A r \in results : Explained(r)' /\ Noticed(r)'
    BY <1>1, ReasonsStay
  <2> QED  BY <1>1, <1>2, <1>4, <2>1, <2>2, <2>3 DEF LocalOK
<1> QED  BY <1>3, <1>4

LEMMA RunSchemaPairLocal ==
    ASSUME AccountInv, HealthOK, LocalOK, RunSchemaPair
    PROVE  HealthOK' /\ LocalOK'
<1> USE DEF outletVars
<1>1. ASSUME NEW S \in SUBSET Tables, NEW T \in SUBSET Tables, ListTables(S, T)
      PROVE  HealthOK' /\ LocalOK'
  <2>1. /\ phase = "list" /\ phase' = "tables"
        /\ catalog' = [catalog EXCEPT ![pair] = [source |-> S, target |-> T]]
        /\ UNCHANGED <<session, pair, found, incidents, results>>
    BY <1>1 DEF ListTables
  <2>2. found = {} /\ \A r \in results : r.pair # pair
    BY <2>1 DEF AccountInv, PlaceOK, LoopOK, InPair
  <2>3. \A r \in found \cup results : catalog'[r.pair] = catalog[r.pair]
    BY <2>1, <2>2 DEF AccountInv, TypeOK, Result
  <2>4. LocalOK'
    BY <2>1, <2>3, ReasonsStay DEF LocalOK
  <2> QED  BY <2>1, <2>4 DEF HealthOK, Fatal
<1>2. ASSUME NEW X, found' = found \cup X, \A r \in X : r.check = "table_presence",
             \A r \in X : r.status # "error", UNCHANGED <<results, catalog, incidents>>
      PROVE  LocalOK'
  <2>1. \A r \in X : Explained(r)' /\ Noticed(r)'
    BY <1>2 DEF Explained, Noticed
  <2>2. \A r \in found \cup results : Explained(r)' /\ Noticed(r)'
    BY <1>2, ReasonsStay
  <2> QED  BY <1>2, <2>1, <2>2 DEF LocalOK
<1>3. ASSUME NEW t \in Tables, MissingTable(t)
      PROVE  HealthOK' /\ LocalOK'
  <2> DEFINE X == {CheckResult(pair, t, "table_presence", "fail")}
  <2>1. /\ found' = found \cup X
        /\ UNCHANGED <<phase, session, pair, incidents, results, catalog>>
    BY <1>3 DEF MissingTable
  <2>2. /\ \A r \in X : r.check = "table_presence"
        /\ \A r \in X : r.status # "error"
    BY DEF CheckResult
  <2> HIDE DEF X
  <2>3. LocalOK'
    BY <1>2, <2>1, <2>2
  <2> QED  BY <2>1, <2>3 DEF HealthOK, Fatal
<1>4. ASSUME NEW t \in Tables, StartTable(t)
      PROVE  HealthOK' /\ LocalOK'
  <2>1. /\ phase = "tables" /\ phase' = "check"
        /\ UNCHANGED <<session, pair, incidents, found, results, catalog>>
    BY <1>4 DEF StartTable
  <2> QED  BY <2>1, LocalStays DEF HealthOK, Fatal
<1>5. ASSUME NEW t \in Tables, RuleRaises(t)
      PROVE  HealthOK' /\ LocalOK'
  BY <1>5, LocalStays DEF RuleRaises, Unwind, HealthOK
<1>6. CASE EndTables
  <2>1. /\ phase' = "close_target" /\ found' = found \cup NothingMatched(pair)
        /\ UNCHANGED <<incidents, results, catalog>>
    BY <1>6 DEF EndTables
  <2>2. \A r \in NothingMatched(pair) : r.check = "table_presence" /\ r.status # "error"
    BY DEF NothingMatched, CheckResult
  <2> QED  BY <1>2, <2>1, <2>2 DEF HealthOK
<1> QED  BY <1>1, <1>3, <1>4, <1>5, <1>6 DEF RunSchemaPair

\* Outside the checks the history only gains incidents of a pair as a whole.
LEMMA NextColumns ==
    ASSUME ColumnsOK, [Next]_vars, ~RunCheck
    PROVE  ColumnsOK'
<1> USE DEF outletVars, pairVars
<1>1. ASSUME incidents' = incidents  PROVE ColumnsOK'
  BY <1>1 DEF ColumnsOK
<1>2. CASE \/ Load \/ LoadFails \/ PrintResults \/ PrintFails \/ SendAlert \/ Exit
           \/ Kill \/ Terminated \/ UNCHANGED vars \/ Open \/ LeavePair
           \/ (\E p \in Pairs : StartPair(p))
           \/ (\E s \in Sides : QueryHangs(s) \/ Close(s))
  BY <1>1, <1>2 DEF Load, LoadFails, PrintResults, PrintFails, SendAlert, Exit, Kill,
                    Terminated, vars, Open, LeavePair, StartPair, QueryHangs, Close
<1>3. CASE RunSchemaPair
  BY <1>1, <1>3 DEF RunSchemaPair, ListTables, MissingTable, StartTable, RuleRaises,
                    EndTables
<1>4. ASSUME NEW s, NEW k \in WholeKinds, Happens("connection", s, k)
      PROVE  ColumnsOK'
  BY <1>4 DEF Happens, ColumnsOK, WholeKinds
<1>5. CASE \/ ConnectFails
           \/ \E s \in Sides : \/ ListingFails(s)
                              \/ \E kind \in WholeKinds : CloseRaises(s, kind)
  BY <1>4, <1>5 DEF ConnectFails, ListingFails, CloseRaises, WholeKinds
<1> QED  BY <1>2, <1>3, <1>5 DEF Next, Command, RunPair

LEMMA NextLocal ==
    ASSUME AccountInv, SessionPlaces, HealthOK, LocalOK, ColumnsOK, [Next]_vars
    PROVE  HealthOK' /\ LocalOK'
<1> USE DEF outletVars, pairVars
<1>1. CASE RunCheck
  BY <1>1, RunCheckLocal
<1>3. CASE RunSchemaPair
  BY <1>3, RunSchemaPairLocal
<1>4. CASE LeavePair
  BY <1>4, LeaveLocal
\* The rest of the program finds nothing and reports nothing.
<1>5. ASSUME incidents \subseteq incidents', catalog' = catalog,
             found' \subseteq found, results' = results,
             phase' \notin {"connect", "list", "tables", "check"}
             \/ UNCHANGED <<phase, pair, session, incidents>>
      PROVE  HealthOK' /\ LocalOK'
  <2>1. LocalOK'
    BY <1>5, LocalStays
  <2> QED  BY <1>5, <2>1 DEF HealthOK, Fatal
<1>6. CASE \/ Load \/ LoadFails \/ PrintResults \/ PrintFails \/ SendAlert \/ Exit
           \/ Kill \/ Terminated \/ UNCHANGED vars \/ \E s \in Sides : QueryHangs(s)
  BY <1>5, <1>6 DEF Load, LoadFails, PrintResults, PrintFails, SendAlert, Exit, Kill,
                    Terminated, vars, QueryHangs
<1>7. CASE \/ ConnectFails
           \/ \E s \in Sides : \/ ListingFails(s) \/ Close(s)
                              \/ \E kind \in WholeKinds : CloseRaises(s, kind)
  <2>1. /\ incidents \subseteq incidents' /\ catalog' = catalog
        /\ found' \subseteq found /\ results' = results
        /\ phase' \in {"leave", "close_source", "close_target"}
    BY <1>7 DEF ConnectFails, ListingFails, Close, CloseRaises, Happens, Unwind, Closing,
                Outward, Opening, Sides
  <2> QED  BY <1>5, <2>1
<1>8. ASSUME NEW p \in Pairs, StartPair(p)
      PROVE  HealthOK' /\ LocalOK'
  <2>1. /\ phase = "next" /\ phase' = "connect"
        /\ UNCHANGED <<session, catalog, found, results, incidents>>
    BY <1>8 DEF StartPair
  <2>2. session["source"] = "closed"
    BY <2>1 DEF AccountInv, PlaceOK, SessionPlaces, Sides
  <2> QED  BY <2>1, <2>2, LocalStays DEF HealthOK
<1>9. CASE Open
  <2>1. /\ phase = "connect" /\ session["source"] \in {"closed", "open"}
        /\ session' = [session EXCEPT ![Opening] = "open"]
        /\ phase' \in IF Opening = "source" THEN {"connect"} ELSE {"list", "check"}
        /\ UNCHANGED <<catalog, found, results, incidents>>
    BY <1>9 DEF Open, HealthOK
  <2>2. LocalOK'
    BY <2>1, LocalStays
  <2>3. session \in [Sides -> SessionStates] /\ \A s \in Sides : s = "source" \/ s = "target"
    BY DEF AccountInv, TypeOK, Sides
  <2>4. CASE Opening = "source"
    BY <2>1, <2>2, <2>3, <2>4 DEF HealthOK, Sides
  <2>5. CASE Opening = "target" /\ session["source"] = "open"
    <3>1. \A s \in Sides : session'[s] = "open"
      BY <2>1, <2>3, <2>5
    <3> QED  BY <2>1, <2>2, <2>5, <3>1 DEF HealthOK
  <2> QED  BY <2>1, <2>4, <2>5 DEF Opening
<1> QED
  BY <1>1, <1>3, <1>4, <1>6, <1>7, <1>8, <1>9 DEF Next, Command, RunPair

LEMMA Locality == Spec => [](HealthOK /\ LocalOK /\ ColumnsOK)
<1>1. Init => HealthOK /\ LocalOK /\ ColumnsOK
  BY DEF Init, HealthOK, LocalOK, ColumnsOK
<1>2. AccountInv /\ SessionPlaces /\ HealthOK /\ LocalOK /\ ColumnsOK /\ [Next]_vars
      => (HealthOK /\ LocalOK /\ ColumnsOK)'
  BY NextLocal, NextColumns, RunCheckLocal
<1> QED  BY <1>1, <1>2, Accounts, Places, PTL DEF Spec

\* An ERROR is never the echo of another check's, another table's or another
\* pair's trouble, but over a session of its own pair that this trouble broke --
\* whatever the engines, the options and the order of the checks.
THEOREM ErrorsTheorem == Spec => []ErrorsStayLocal
<1>1. LocalOK => ErrorsStayLocal
  BY DEF LocalOK, Explained, ErrorsStayLocal
<1> QED  BY <1>1, Locality, PTL

\* Where no PostgreSQL target lacks a column, schema_drift reports a missing one
\* as FAIL, whichever checks of the table tripped over that column before.
THEOREM MissingColumnTheorem ==
    ASSUME NoPostgresLacks
    PROVE  Spec => []MissingColumnIsFail
<1>1. AccountInv /\ LocalOK /\ ColumnsOK => MissingColumnIsFail
  <2> SUFFICES ASSUME AccountInv, LocalOK, ColumnsOK, NEW r \in results,
                      r.check = "schema_drift", r.table \in Lacking[r.pair],
                      ~Broken(r.pair), "schema_drift" \notin Raising[r.pair][r.table],
                      \A i \in incidents : Hits(i, r) => i.kind = "column"
               PROVE  r.status = "fail"
    BY DEF MissingColumnIsFail
  <2>1. ASSUME NEW i \in incidents, Hits(i, r)
        PROVE  FALSE
    <3>1. /\ i.kind = "column" /\ i.side = "target" /\ i.check # "schema_drift"
          /\ i.table \in Lacking[i.pair] /\ i.pair \in Pairs
      BY <2>1 DEF ColumnsOK, AccountInv, TypeOK, Incident
    <3>2. Engine[i.pair]["target"] = "postgres"
      BY <2>1, <3>1 DEF Hits, Fatal
    <3> QED  BY <3>1, <3>2 DEF NoPostgresLacks
  <2>2. Noticed(r)
    BY DEF LocalOK
  <2> QED  BY <2>1, <2>2 DEF Noticed
<1> QED  BY <1>1, Accounts, Locality, PTL

-----------------------------------------------------------------------------
(***************************************************************************)
(* Why a run ends.  Each step of the command takes it down in an order in  *)
(* which nothing descends for ever: the pairs to start, the tables of this *)
(* pair, the phase, and what is left to do in the phase.  And before it is *)
(* over a step is possible, unless a query hangs.  What is left to assume  *)
(* is that the interpreter takes the step (FairSpec).                      *)
(***************************************************************************)

\* The tables of the current pair that are not over; before the listing it
\* might be any.
TablesLeft == IF phase \in {"connect", "list"} THEN Tables
              ELSE Tables \cap (tables \cup {table})

\* The order of the phases of a pair, and of a run around it.
Rank == CASE phase = "load"         -> 11
          [] phase = "connect"      -> 10
          [] phase = "list"         -> 9
          [] phase = "tables"       -> 8
          [] phase = "check"        -> 7
          [] phase = "close_target" -> 6
          [] phase = "close_source" -> 5
          [] phase = "leave"        -> 4
          [] phase = "next"         -> 3
          [] phase = "alert"        -> 2
          [] phase = "exit"         -> 1
          [] OTHER                  -> 0

\* The sessions to open, the checks to run.
Errands == IF phase = "connect" THEN {s \in Sides : session[s] = "closed"} ELSE todo

AllErrands == Sides \cup CheckNames

Measure == <<queue, <<TablesLeft, <<Rank, Errands>>>>>>

PhaseOrder == LexPairOrdering(OpToRel(<, Nat), StrictSubsetOrdering(AllErrands),
                              Nat, SUBSET AllErrands)
PairOrder  == LexPairOrdering(StrictSubsetOrdering(Tables), PhaseOrder,
                              SUBSET Tables, Nat \X SUBSET AllErrands)
RunOrder   == LexPairOrdering(StrictSubsetOrdering(Pairs), PairOrder,
                              SUBSET Pairs, (SUBSET Tables) \X (Nat \X SUBSET AllErrands))
Measures   == (SUBSET Pairs) \X ((SUBSET Tables) \X (Nat \X SUBSET AllErrands))

\* No infinite sequence descends in that order.
LEMMA RunOrderWellFounded ==
    ASSUME IsFiniteSet(Pairs), IsFiniteSet(Tables), IsFiniteSet(CheckNames)
    PROVE  IsWellFoundedOn(RunOrder, Measures)
<1>1. ASSUME NEW S, IsFiniteSet(S)
      PROVE  IsWellFoundedOn(StrictSubsetOrdering(S), SUBSET S)
  BY <1>1, Zenon, FS_StrictSubsetOrderingWellFounded, FS_FiniteSubsetsOfFinite
<1>2. IsFiniteSet(AllErrands)
  <2>1. IsFiniteSet(Sides)
    <3>1. Sides = {"source"} \cup {"target"}
      BY DEF Sides
    <3> QED  BY <3>1, FS_Singleton, FS_Union
  <2> QED  BY <2>1, FS_Union DEF AllErrands
<1>3. IsWellFoundedOn(PhaseOrder, Nat \X SUBSET AllErrands)
  <2> DEFINE R == OpToRel(<, Nat)
  <2>1. IsWellFoundedOn(R, Nat)
    BY NatLessThanWellFounded
  <2>2. PhaseOrder = LexPairOrdering(R, StrictSubsetOrdering(AllErrands),
                                     Nat, SUBSET AllErrands)
    BY DEF PhaseOrder
  <2>3. IsWellFoundedOn(StrictSubsetOrdering(AllErrands), SUBSET AllErrands)
    BY <1>1, <1>2
  <2> HIDE DEF R
  <2> QED  BY <2>1, <2>2, <2>3, WFLexPairOrdering, Zenon
<1>4. IsWellFoundedOn(PairOrder, (SUBSET Tables) \X (Nat \X SUBSET AllErrands))
  <2>1. IsWellFoundedOn(StrictSubsetOrdering(Tables), SUBSET Tables)
    BY <1>1
  <2>2. PairOrder = LexPairOrdering(StrictSubsetOrdering(Tables), PhaseOrder,
                                    SUBSET Tables, Nat \X SUBSET AllErrands)
    BY DEF PairOrder
  <2> QED  BY <1>3, <2>1, <2>2, WFLexPairOrdering, Zenon
<1>5. IsWellFoundedOn(StrictSubsetOrdering(Pairs), SUBSET Pairs)
  BY <1>1
<1>6. RunOrder = LexPairOrdering(StrictSubsetOrdering(Pairs), PairOrder, SUBSET Pairs,
                                 (SUBSET Tables) \X (Nat \X SUBSET AllErrands))
  BY DEF RunOrder
<1>7. IsWellFoundedOn(RunOrder, (SUBSET Pairs)
                                    \X ((SUBSET Tables) \X (Nat \X SUBSET AllErrands)))
  BY <1>4, <1>5, <1>6, WFLexPairOrdering, Zenon
<1> QED  BY <1>7 DEF Measures

MeasureOK == /\ Rank \in Nat /\ Errands \in SUBSET AllErrands
             /\ TablesLeft \in SUBSET Tables /\ queue \in SUBSET Pairs

LEMMA MeasureType == TypeOK => MeasureOK
<1>1. Rank \in Nat
  BY DEF Rank
<1> QED  BY <1>1 DEF TypeOK, MeasureOK, Errands, AllErrands, TablesLeft

\* Descending in each of the four, the ones before it being no more than before.
Fewer(A, B) == A \subseteq B /\ A # B

Descends ==
    /\ queue' \subseteq queue
    /\ \/ queue' # queue
       \/ /\ TablesLeft' \subseteq TablesLeft
          /\ \/ TablesLeft' # TablesLeft
             \/ Rank' < Rank
             \/ Rank' = Rank /\ Fewer(Errands', Errands)

LEMMA DescendsInOrder ==
    ASSUME TypeOK, TypeOK', Descends
    PROVE  <<Measure', Measure>> \in RunOrder
<1> DEFINE inner  == <<Rank, Errands>>
           middle == <<TablesLeft, inner>>
<1>1. /\ Rank \in Nat /\ Errands \in SUBSET AllErrands
      /\ TablesLeft \in SUBSET Tables /\ queue \in SUBSET Pairs
  BY MeasureType DEF MeasureOK
<1>2. /\ Rank' \in Nat /\ Errands' \in SUBSET AllErrands
      /\ TablesLeft' \in SUBSET Tables /\ queue' \in SUBSET Pairs
  <2>1. MeasureOK'
    BY MeasureType, PTL
  <2> QED  BY <2>1 DEF MeasureOK
<1>3. \A S : \A A, B \in SUBSET S :
          A \subseteq B /\ A # B => <<A, B>> \in StrictSubsetOrdering(S)
  BY DEF StrictSubsetOrdering
<1>4. Rank' < Rank => <<Rank', Rank>> \in OpToRel(<, Nat)
  BY <1>1, <1>2 DEF OpToRel
<1>5. Rank' < Rank \/ (Rank' = Rank /\ Fewer(Errands', Errands))
      => <<inner', inner>> \in PhaseOrder
  BY <1>1, <1>2, <1>3, <1>4 DEF PhaseOrder, LexPairOrdering, Fewer
<1>6. /\ TablesLeft' \subseteq TablesLeft
      /\ TablesLeft' # TablesLeft \/ <<inner', inner>> \in PhaseOrder
      => <<middle', middle>> \in PairOrder
  BY <1>1, <1>2, <1>3 DEF PairOrder, LexPairOrdering
<1>7. /\ queue' \subseteq queue
      /\ queue' # queue \/ <<middle', middle>> \in PairOrder
      => <<Measure', Measure>> \in RunOrder
  <2>1. /\ middle \in (SUBSET Tables) \X (Nat \X SUBSET AllErrands)
        /\ middle' \in (SUBSET Tables) \X (Nat \X SUBSET AllErrands)
    <3>1. inner \in Nat \X SUBSET AllErrands /\ inner' \in Nat \X SUBSET AllErrands
      BY <1>1, <1>2
    <3> HIDE DEF inner
    <3> QED  BY <1>1, <1>2, <3>1
  <2>2. Measure = <<queue, middle>> /\ Measure' = <<queue', middle'>>
    BY DEF Measure
  <2> HIDE DEF middle
  <2> QED  BY <1>1, <1>2, <1>3, <2>1, <2>2 DEF RunOrder, LexPairOrdering
<1> QED  BY <1>5, <1>6, <1>7 DEF Descends

LEMMA RunCheckDescends ==
    ASSUME AccountInv, RunCheck
    PROVE  Descends
<1>1. ASSUME NEW c \in todo, NEW s, Judge(c, s), phase = "check"
      PROVE  Descends
  BY <1>1 DEF Judge, Descends, TablesLeft, Rank, Errands, Fewer
<1>2. CASE EndChecks
  <2>1. /\ queue' = queue /\ tables' = tables /\ table' = NONE /\ phase = "check"
        /\ phase' = IF pair \in SchemaPairs THEN "tables" ELSE "close_target"
    BY <1>2 DEF EndChecks
  <2>2. NONE \notin Tables /\ tables \subseteq Tables
    BY RunnerAssumption DEF AccountInv, TypeOK
  <2>3. CASE pair \in SchemaPairs
    <3>1. table \in Tables \ tables
      BY <2>1, <2>3, RunnerAssumption DEF AccountInv, TypeOK, LoopOK, Selected
    <3>2. TablesLeft = tables \cup {table} /\ TablesLeft' = tables
      BY <2>1, <2>2, <2>3, <3>1 DEF TablesLeft
    <3> QED  BY <2>1, <3>1, <3>2 DEF Descends
  <2>4. CASE pair \notin SchemaPairs
    <3>1. TablesLeft' \subseteq TablesLeft /\ Rank' < Rank
      BY <2>1, <2>2, <2>4 DEF TablesLeft, Rank
    <3> QED  BY <2>1, <3>1 DEF Descends
  <2> QED  BY <2>3, <2>4
<1>3. ASSUME NEW c \in CheckNames,
             \/ UnknownCheck(c) \/ Skip(c) \/ CheckRaises(c)
             \/ MissingColumn(c) \/ SessionDead(c)
      PROVE  Descends
  BY <1>1, <1>3 DEF UnknownCheck, Skip, CheckRaises, MissingColumn, SessionDead, Running
<1>4. ASSUME NEW c \in CheckNames, NEW v \in Statuses, Evaluate(c, v)
      PROVE  Descends
  BY <1>1, <1>4 DEF Evaluate, Running
<1>5. ASSUME NEW c \in CheckNames, NEW s \in Sides,
             NEW state \in {"open", "aborted", "lost"}, QueryFails(c, s, state)
      PROVE  Descends
  BY <1>1, <1>5 DEF QueryFails, Running
<1> QED  BY <1>2, <1>3, <1>4, <1>5 DEF RunCheck

LEMMA CommandDescends ==
    ASSUME AccountInv, Command
    PROVE  Descends
<1> USE DEF outletVars, pairVars
<1>1. CASE Load \/ LoadFails \/ PrintResults \/ PrintFails \/ SendAlert \/ Exit
  <2>1. UNCHANGED <<queue, tables, table>> /\ phase \notin {"connect", "list"}
    BY <1>1 DEF Load, LoadFails, PrintResults, PrintFails, SendAlert, Exit
  <2>2. phase' \notin {"connect", "list"}
    BY <1>1 DEF Load, LoadFails, PrintResults, PrintFails, SendAlert, Exit
  <2>3. Rank' < Rank
    BY <1>1 DEF Load, LoadFails, PrintResults, PrintFails, SendAlert, Exit, Rank
  <2> QED  BY <2>1, <2>2, <2>3 DEF Descends, TablesLeft
<1>2. ASSUME NEW p \in Pairs, StartPair(p)  PROVE Descends
  BY <1>2 DEF StartPair, Descends
<1>3. CASE Open
  <2>1. CASE Opening = "source"
    <3>1. /\ phase = "connect" /\ phase' = "connect" /\ session["source"] = "closed"
          /\ session' = [session EXCEPT !["source"] = "open"]
          /\ UNCHANGED <<queue, tables, table>>
      BY <1>3, <2>1 DEF Open, Opening
    <3>2. session' \in [Sides -> SessionStates]
          /\ session'["source"] = "open"
      BY <3>1 DEF AccountInv, TypeOK, Sides, SessionStates
    <3>3. Fewer(Errands', Errands)
      BY <3>1, <3>2 DEF Errands, Fewer, Sides, AccountInv, TypeOK
    <3> QED  BY <3>1, <3>3 DEF Descends, TablesLeft, Rank
  <2>2. CASE Opening # "source"
    BY <1>3, <2>2 DEF Open, Descends, TablesLeft, Rank
  <2> QED  BY <2>1, <2>2
<1>4. CASE \/ ConnectFails \/ LeavePair
           \/ \E s \in Sides : \/ ListingFails(s) \/ Close(s)
                              \/ \E kind \in WholeKinds : CloseRaises(s, kind)
  <2>1. /\ queue' = queue /\ Rank' < Rank
        /\ tables' \subseteq tables /\ table' \in {table, NONE}
        /\ phase' \notin {"connect", "list"}
    BY <1>4 DEF ConnectFails, ListingFails, Close, CloseRaises, LeavePair, Unwind,
                Closing, Outward, Sides, Rank
  <2>2. TablesLeft' \subseteq TablesLeft
    BY <2>1, RunnerAssumption DEF TablesLeft, AccountInv, TypeOK
  <2> QED  BY <2>1, <2>2 DEF Descends
<1>5. CASE RunSchemaPair
  <2>1. ASSUME NEW S \in SUBSET Tables, NEW T \in SUBSET Tables, ListTables(S, T)
        PROVE  Descends
    BY <2>1 DEF ListTables, Descends, TablesLeft, Rank
  <2>2. ASSUME NEW t \in Tables, MissingTable(t)  PROVE Descends
    <3>1. /\ queue' = queue /\ phase = "tables" /\ phase' = phase /\ table' = table
          /\ t \in tables /\ tables' = tables \ {t}
      BY <2>2 DEF MissingTable
    <3>2. t # table /\ t \in Tables
      BY <3>1, RunnerAssumption DEF AccountInv, LoopOK
    <3> QED  BY <3>1, <3>2 DEF Descends, TablesLeft
  <2>3. ASSUME NEW t \in Tables, StartTable(t)  PROVE Descends
    BY <2>3, RunnerAssumption DEF StartTable, Descends, TablesLeft, Rank, AccountInv, LoopOK
  <2>4. ASSUME NEW t \in Tables, RuleRaises(t)  PROVE Descends
    BY <2>4 DEF RuleRaises, Unwind, Descends, TablesLeft, Rank, AccountInv, LoopOK
  <2>5. CASE EndTables
    BY <2>5 DEF EndTables, Descends, TablesLeft, Rank
  <2> QED  BY <1>5, <2>1, <2>2, <2>3, <2>4, <2>5 DEF RunSchemaPair
<1>6. CASE RunCheck
  BY <1>6, RunCheckDescends
<1> QED  BY <1>1, <1>2, <1>3, <1>4, <1>5, <1>6 DEF Command, RunPair

\* No loop of cli.check, run, run_pair or _run_schema_pair goes round for ever:
\* every step of the command descends in RunOrder, whatever fails.
THEOREM DescentTheorem ==
    Spec => [][Command => <<Measure', Measure>> \in RunOrder]_vars
<1>1. AccountInv => TypeOK
  BY DEF AccountInv
<1>2. AccountInv' => TypeOK'
  BY DEF AccountInv
<1>3. AccountInv /\ AccountInv' /\ [Next]_vars
      => [Command => <<Measure', Measure>> \in RunOrder]_vars
  BY <1>1, <1>2, CommandDescends, DescendsInOrder
<1> QED  BY <1>3, Accounts, PTL DEF Spec

\* What the command can do next, by its guards: StartPair or PrintResults; one
\* of MissingTable, StartTable and RuleRaises, or EndTables; UnknownCheck,
\* SessionDead, Evaluate or MissingColumn, or EndChecks.
CanGoOn ==
    CASE phase = "next"   -> queue = {} \/ \E p \in Pairs : p \in queue
      [] phase = "tables" -> tables = {} \/ \E t \in Tables : t \in tables
      [] phase = "check"  ->
            \/ todo = {}
            \/ \E c \in CheckNames \cap todo :
                  \/ c \notin Registered
                  \/ \E s \in Sides : session[s] \in {"aborted", "lost"}
                  \/ \A s \in Sides : session[s] = "open"
      [] OTHER -> phase \in {"load", "connect", "list", "close_target", "close_source",
                             "leave", "alert", "exit"}

\* A query that never returns: only QueryHangs leads there, and only Kill away.
Hangs == \E s \in Sides : session[s] = "hung" /\ Engine[pair][s] = "postgres"

HungOK == phase = "hung" => Hangs

LEMMA NextHung ==
    ASSUME TypeOK, PairOK, HungOK, [Next]_vars
    PROVE  HungOK'
<1> USE DEF HungOK, outletVars, pairVars
<1>1. CASE Load \/ LoadFails \/ PrintResults \/ PrintFails \/ SendAlert \/ Exit \/ Kill
  BY <1>1 DEF Load, LoadFails, PrintResults, PrintFails, SendAlert, Exit, Kill
<1>2. CASE RunPair
  BY <1>2, PairStepsAreSilent DEF InPair
<1>3. ASSUME NEW s \in Sides, QueryHangs(s)
      PROVE  HungOK'
  BY <1>3 DEF QueryHangs, MayHang, Hangs, TypeOK
<1>4. CASE Terminated \/ UNCHANGED vars
  BY <1>4 DEF Terminated, vars, Hangs
<1> QED  BY <1>1, <1>2, <1>3, <1>4 DEF Next, Command

\* Nothing but a PostgreSQL query that never returns stops the command before its
\* end: the loops never meet a pair, a table, a check or a session that none of
\* their steps handles.
THEOREM NeverStuckTheorem == Spec => [](exit = StillRunning => CanGoOn \/ Hangs)
<1>1. Init => HungOK
  BY DEF Init, HungOK
<1>2. TypeOK /\ PairOK /\ HungOK /\ [Next]_vars => HungOK'
  BY NextHung
<1>3. TypeOK /\ HealthOK /\ OutletOK /\ HungOK =>
          (exit = StillRunning => CanGoOn \/ Hangs)
  <2> SUFFICES ASSUME TypeOK, HealthOK, OutletOK, exit = StillRunning, phase # "hung"
               PROVE  CanGoOn
    BY DEF HungOK
  <2>1. phase # "done"
    BY DEF OutletOK
  <2>2. CASE phase = "next"
    BY <2>2 DEF CanGoOn, TypeOK
  <2>3. CASE phase = "tables"
    BY <2>3 DEF CanGoOn, TypeOK
  <2>4. CASE phase = "check"
    <3>1. \A s \in Sides : session[s] \in {"open", "aborted", "lost"}
      BY <2>4 DEF HealthOK
    <3> QED  BY <2>4, <3>1 DEF CanGoOn, TypeOK
  <2>5. CASE phase \notin {"next", "tables", "check"}
    BY <2>1, <2>5 DEF CanGoOn, TypeOK, Phases
  <2> QED  BY <2>2, <2>3, <2>4, <2>5
<1> QED  BY <1>1, <1>2, <1>3, Outlets, Locality, PTL DEF Spec
=============================================================================
