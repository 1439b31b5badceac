--------------------------- MODULE ReportSchedule ----------------------------
(***************************************************************************)
(* The daily report end to end: cron runs it while the crontab has a line  *)
(* with its tag, and schedule and unschedule change the crontab meanwhile. *)
(***************************************************************************)
EXTENDS Crontab, DailyReport

vars == <<cronVars, reportVars>>

Init == CronInit /\ ReportInit

\* The cron daemon, at a time that the line matches.
CronFires ==
    /\ Jobs # {}
    /\ RunStarts
    /\ UNCHANGED cronVars

Next ==
    \/ CronFires
    \/ CronNext /\ UNCHANGED reportVars
    \/ RunNext /\ UNCHANGED cronVars

Spec == Init /\ [][Next]_vars

\* The clock: what is scheduled is run, and an alarm that is armed goes off.  No
\* request has to be answered, nobody has to schedule anything.
FairSpec ==
    /\ Spec
    /\ WF_vars(CronFires)
    /\ WF_vars(WatchdogFires /\ UNCHANGED cronVars)

-----------------------------------------------------------------------------
TypeOK == CronTypeOK /\ ReportTypeOK

\* While the report stays scheduled and its section is there, runs follow each other for
\* ever, and each of them ends: no request that is never answered stops the reports.
ReportsKeepComing ==
    []<>(Jobs = {} \/ run.exit = "unset" \/ run.pc = "checking") /\ (run.pc = "checking" ~> run.pc = "ended")

=============================================================================
