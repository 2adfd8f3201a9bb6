------------------------------- MODULE Status -------------------------------
(***************************************************************************)
(* Verdicts and exit codes: checks/base.py (Status, exit_code) and         *)
(* runner.worst_status.                                                    *)
(***************************************************************************)
EXTENDS Naturals

Statuses == {"ok", "warn", "fail", "error"}

\* The order of severity that worst_status compares with.
Severity == [ok |-> 0, warn |-> 1, fail |-> 2, error |-> 3]

\* Status.exit_code
CodePerStatus(s) == Severity[s]
exit_code(s) == CASE s = "ok"   -> 0
                  [] s = "warn" -> 1
                  [] OTHER      -> 2

\* Status is a str: without `key` the maximum is the alphabetical one.
AlphabeticalMax(S) ==
    IF S = {} THEN "ok"
    ELSE IF "warn" \in S THEN "warn" ELSE IF "ok" \in S THEN "ok"
    ELSE IF "fail" \in S THEN "fail" ELSE "error"

\* worst_status of the statuses in S; "ok" when a run has no result at all.
worst_status(S) ==
    IF S = {} THEN "ok"
    ELSE CHOOSE s \in S : \A t \in S : Severity[t] <= Severity[s]

\* What the parent process (cron, a CI job) can see of the command: it has not
\* ended, it was killed from outside, or it ended with a code of its own.
StillRunning == 255
Killed       == 137
ExitCodes    == {0, 1, 2}
=============================================================================
