----------------------------- MODULE RemoteCall -----------------------------
(***************************************************************************)
(* What the messaging layer promises to the user of a proxy instrument:    *)
(* a call is performed at most once, an answer is the answer to that very  *)
(* call, and a call that has been answered is never performed afterwards.  *)
(* A call that timed out may or may not have been performed, or may be     *)
(* performed later.                                                        *)
(***************************************************************************)
EXTENDS Naturals

CONSTANTS Callers, MaxCalls

VARIABLES
    issued,    \* how many calls each caller has made, one after the other
    performed, \* how often the provider has performed each call
    outcome    \* what the caller knows of each call

vars == <<issued, performed, outcome>>

Outcomes == {"none", "ok", "error", "timeout"}

Init ==
    /\ issued = [c \in Callers |-> 0]
    /\ performed = [c \in Callers |-> [n \in 1..MaxCalls |-> 0]]
    /\ outcome = [c \in Callers |-> [n \in 1..MaxCalls |-> "none"]]

Issue(c) ==
    /\ issued[c] < MaxCalls
    /\ issued[c] > 0 => outcome[c][issued[c]] # "none"
    /\ issued' = [issued EXCEPT ![c] = @ + 1]
    /\ UNCHANGED <<performed, outcome>>

Perform(c, n) ==
    /\ n <= issued[c]
    /\ performed[c][n] = 0
    /\ outcome[c][n] \in {"none", "timeout"}
    /\ performed' = [performed EXCEPT ![c][n] = 1]
    /\ UNCHANGED <<issued, outcome>>

Conclude(c, result) ==
    LET n == issued[c] IN
    /\ n > 0
    /\ outcome[c][n] = "none"
    /\ result = "ok" => performed[c][n] = 1
    /\ outcome' = [outcome EXCEPT ![c][n] = result]
    /\ UNCHANGED <<issued, performed>>

Next ==
    \E c \in Callers :
        \/ Issue(c)
        \/ \E n \in 1..MaxCalls : Perform(c, n)
        \/ \E result \in {"ok", "error", "timeout"} : Conclude(c, result)

Spec == Init /\ [][Next]_vars

=============================================================================
