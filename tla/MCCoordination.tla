--------------------------- MODULE MCCoordination ---------------------------
(***************************************************************************)
(* Coordination for TLC.  The configurations give the sets; nodes, calls,  *)
(* sockets and resets are model values.                                    *)
(***************************************************************************)
EXTENDS Coordination, FiniteSets, TLC

\* Calls, resets, and the sockets that are not slow are interchangeable: the
\* configurations that use this let all of them fail or close, or none.  Nodes are not
\* permuted.
Symmetry ==
    Permutations(Calls) \cup Permutations(Resets) \cup Permutations(Sockets \ SlowSockets)

Opened == {w \in Sockets : socket[w].conn # "idle"}

\* Bound: a behaviour has several pages, or it has slow ones, streams and calls that fail.
PagesOrFailures ==
    \/ Cardinality(Opened) <= 1
    \/ /\ Opened \cap SlowSockets = {}
       /\ \A s \in Streams : stream[s].pc = "idle"
       /\ \A c \in Calls : call[c].collect # "failed"

BoundedNext == Next /\ PagesOrFailures'

BoundedSpec == Init /\ [][BoundedNext]_vars

=============================================================================
