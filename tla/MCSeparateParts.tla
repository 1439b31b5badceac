--------------------------- MODULE MCSeparateParts ---------------------------
(***************************************************************************)
(* The parts of a laboratory that share nothing, for TLC: the crontab, the *)
(* polarimeter and the rotary encoder.  How their steps interleave makes   *)
(* no difference, so each moves while the others are where they start.     *)
(***************************************************************************)
EXTENDS Crontab, Polarimeter, RotaryEncoder

TurnSet == {-60, -20, 20, 60}

vars == <<cronVars, polVars, encVars>>

Init == CronInit /\ PolInit /\ EncInit

Next ==
    \/ PolInit /\ EncInit /\ CronNext /\ UNCHANGED <<polVars, encVars>>
    \/ CronInit /\ EncInit /\ PolNext /\ UNCHANGED <<cronVars, encVars>>
    \/ CronInit /\ PolInit /\ EncNext /\ UNCHANGED <<cronVars, polVars>>

Spec == Init /\ [][Next]_vars

=============================================================================
