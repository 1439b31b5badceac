-------------------------- MODULE MCReportSchedule ---------------------------
(***************************************************************************)
(* ReportSchedule for TLC: one provider has two devices, of which one is   *)
(* named twice, another provider one; a setting is left out.               *)
(***************************************************************************)
EXTENDS ReportSchedule

CONSTANTS node1, node2, hwp, tagger

Settings == << <<node1, hwp>>, <<node2, hwp>>, <<Unset, Unset>>, <<node1, hwp>>, <<node1, tagger>> >>

=============================================================================
