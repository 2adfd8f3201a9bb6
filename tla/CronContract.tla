---------------------------- MODULE CronContract ----------------------------
(***************************************************************************)
(* What `cdcanary check` promises to whoever scheduled it, with no word    *)
(* about pairs, connections or checks: a report is printed at most once    *)
(* and never taken back, a Slack message is attempted exactly for a        *)
(* printed report that holds a problem while a webhook is on, and after a  *)
(* printed report the exit code is a function of that report alone.  A     *)
(* command that prints no report never ends with 0 or 2.  Runner           *)
(* implements this module.                                                 *)
(***************************************************************************)
EXTENDS Status

VARIABLES
    report,    \* "none", "printed", or "broken": printing raised
    statuses,  \* the statuses in the printed report; {} before it is printed
    webhook,   \* Slack is configured and not switched off
    alert,     \* "none", "sent", or "failed"
    exit       \* StillRunning, Killed, or the command's exit code

vars == <<report, statuses, webhook, alert, exit>>

Init ==
    /\ report = "none"
    /\ statuses = {}
    /\ webhook = FALSE
    /\ alert = "none"
    /\ exit = StillRunning

\* The configuration and the options say whether anybody wants to be told.
Configure ==
    /\ report = "none" /\ exit = StillRunning
    /\ webhook' \in BOOLEAN
    /\ UNCHANGED <<report, statuses, alert, exit>>

\* The whole report appears at once, whatever it says.
Publish ==
    /\ report = "none" /\ exit = StillRunning
    /\ report' = "printed"
    /\ statuses' \in SUBSET Statuses
    /\ UNCHANGED <<webhook, alert, exit>>

\* Slack hears of a report with a problem in it, at most once.
Tell ==
    /\ report = "printed" /\ exit = StillRunning /\ alert = "none"
    /\ webhook /\ statuses \ {"ok"} # {}
    /\ alert' \in {"sent", "failed"}
    /\ UNCHANGED <<report, statuses, webhook, exit>>

\* 0 all green, 1 warnings, 2 failures or errors -- whatever Slack did, but not
\* before it was tried if there was something to tell.
End ==
    /\ report = "printed" /\ exit = StillRunning
    /\ webhook /\ statuses \ {"ok"} # {} => alert # "none"
    /\ exit' = IF statuses \cap {"fail", "error"} # {} THEN 2
               ELSE IF "warn" \in statuses THEN 1 ELSE 0
    /\ UNCHANGED <<report, statuses, webhook, alert>>

\* The command gives up without a report: exit code 1.
Refuse ==
    /\ report = "none" /\ exit = StillRunning
    /\ report' \in {"none", "broken"}
    /\ exit' = 1
    /\ UNCHANGED <<statuses, webhook, alert>>

\* The scheduler's own time limit kills the process.
Kill ==
    /\ exit = StillRunning
    /\ exit' = Killed
    /\ UNCHANGED <<report, statuses, webhook, alert>>

Next == Configure \/ Publish \/ Tell \/ End \/ Refuse \/ Kill

Spec == Init /\ [][Next]_vars
=============================================================================
