----------------------------- MODULE QKDSession -----------------------------
(***************************************************************************)
(* The QKD game of two paired nodes (app/api/routes/qkd.py): both users    *)
(* submit their bases, the leader waits for the follower, exchanges the    *)
(* bits one by one, compares the bases and tells the follower the result,  *)
(* while either user may reset the session (coordination.py).              *)
(*                                                                         *)
(* One action is one segment of a handler between two awaits.  A request   *)
(* of the leader is handled by the follower in one action and the leader   *)
(* goes on with the reply in another.  Bits are not numbers but the        *)
(* choices they come from: choice <<r, i>> is made for bit i of run r.     *)
(***************************************************************************)
EXTENDS Integers, Sequences, FiniteSets

CONSTANTS
    BitLength,   \* settings.qkd_settings.bitstring_length
    DefaultList, \* the list of bases a leader's process starts with
    ChosenLists, \* the lists of bases that the users choose from, of any length
    Runs,        \* identities of the leader's runs
    DirectRuns,  \* those started by POST /qkd instead of a submission
    FailingRuns, \* those during which a wave plate or the time tagger may fail
    Waits,       \* identities of the follower's submissions
    Fetches,     \* identities of the calls of /qkd/question_order by the GUIs
    Orders,      \* the question orders that may be drawn
    NoOrder,     \* the empty list
    Resets,      \* identities of the calls of /coordination/reset_coordination_state
    LostResets,  \* those whose notification may not reach the peer
    Watched      \* the nodes whose GUI listens to /coordination/state_events

\* The same node leads in every session.
Nodes == {"leader", "follower"}
Role(n) == IF n = "leader" THEN "LEADER" ELSE "FOLLOWER"
Peer(n) == IF n = "leader" THEN "follower" ELSE "leader"

Bases == {"HV", "DA"}
BasisLists == Seq(Bases)

ASSUME QKDAssumption ==
    /\ BitLength \in Nat \ {0}
    /\ DefaultList \in BasisLists
    /\ ChosenLists \subseteq BasisLists
    /\ DirectRuns \subseteq Runs
    /\ FailingRuns \subseteq Runs
    /\ LostResets \subseteq Resets
    /\ NoOrder \notin Orders
    /\ Watched \subseteq Nodes

VARIABLES
    role,           \* of each node; a node in a role has the address of the other
    cancel_event,   \* protocol_cancelled_event.is_set() on each node
    result_event,   \* qkd_result_received_event.is_set() on the follower
    leading,        \* the leader's part of its NodeState
    following,      \* the follower's part of its NodeState
    question_order, \* qkd_question_order of each node
    position,       \* the choice each node's wave plate was last moved for
    run,            \* the leader's runs
    wait,           \* the follower's submissions
    fetch,          \* the calls of /qkd/question_order
    reset,          \* the calls of reset_coordination_state
    session         \* history: how often the nodes have paired

vars == <<role, cancel_event, result_event, leading, following, question_order,
          position, run, wait, fetch, reset, session>>

-----------------------------------------------------------------------------
(* Types *)

Choices == Runs \X (Nat \ {0})
NoChoice == <<>>
Positions == Choices \cup {NoChoice}

Request == [basis: Bases, choice: Choices]
Count == [leader: Positions, follower: Positions]

\* qkd_leader_basis_list, qkd_bit_list
Leading == [basis_list: BasisLists, bit_list: Seq(Choices)]

\* qkd_follower_basis_list, qkd_single_bit_current_index, qkd_request_basis_list
\* together with qkd_request_bit_list, qkd_n_matching_bits
Following ==
    [basis_list: BasisLists, index: Nat,
     requests: Seq(Request), n_matching_bits: Nat \cup {-1}]

Polling == {"polling", "polled", "pausing"}
Exchanging == {"handshaking", "handshaken", "measuring", "measured",
               "comparing", "compared", "submitting"}
Ended == {"done", "failed", "conflict"}

\* todo is the list the loop runs over, bases the list that is compared, outcome
\* what the bits are computed from, compared the follower's requests at the
\* comparison, excused whether one 503 has been forgiven.
Run ==
    [pc: {"idle"} \cup Polling \cup Exchanging \cup Ended,
     reply: {"none", "ok", "ready", "not ready", "400", "500", "503"},
     excused: BOOLEAN,
     todo: BasisLists, counts: Seq(Count),
     bases: BasisLists, outcome: Seq([choice: Choices, count: Count]),
     compared: Seq(Request), session: Nat]

Wait ==
    [pc: {"idle", "spawned", "waiting", "woken", "returned", "conflict"},
     bits: Nat \cup {-1}, session: Nat]

Fetch == [pc: {"idle", "fetching", "fetched", "returned", "failed"},
          order: Orders \cup {NoOrder}]

Reset == [pc: {"idle", "notifying", "sleeping", "notified", "done"}, node: Nodes]

\* A run takes one count for each basis of the list it runs over, and no more.
TypeOK ==
    /\ \A n \in Nodes : role[n] \in {"INDEPENDENT", Role(n)}
    /\ cancel_event \in [Nodes -> BOOLEAN]
    /\ result_event \in BOOLEAN
    /\ leading \in Leading
    /\ following \in Following
    /\ question_order \in [Nodes -> Orders \cup {NoOrder}]
    /\ position \in [Nodes -> Positions]
    /\ run \in [Runs -> Run]
    /\ \A r \in Runs : Len(run[r].counts) <= Len(run[r].todo)
    /\ wait \in [Waits -> Wait]
    /\ fetch \in [Fetches -> Fetch]
    /\ reset \in [Resets -> Reset]
    /\ session \in Nat

Init ==
    /\ role = [n \in Nodes |-> "INDEPENDENT"]
    /\ cancel_event = [n \in Nodes |-> FALSE]
    /\ result_event = FALSE
    /\ leading = [basis_list |-> DefaultList, bit_list |-> <<>>]
    /\ following = [basis_list |-> <<>>, index |-> 0, requests |-> <<>>,
                    n_matching_bits |-> -1]
    /\ question_order = [n \in Nodes |-> NoOrder]
    /\ position = [n \in Nodes |-> NoChoice]
    /\ run = [r \in Runs |->
                [pc |-> "idle", reply |-> "none", excused |-> FALSE, todo |-> <<>>,
                 counts |-> <<>>, bases |-> <<>>, outcome |-> <<>>, compared |-> <<>>,
                 session |-> 0]]
    /\ wait = [w \in Waits |-> [pc |-> "idle", bits |-> -1, session |-> 0]]
    /\ fetch = [f \in Fetches |-> [pc |-> "idle", order |-> NoOrder]]
    /\ reset = [x \in Resets |-> [pc |-> "idle", node |-> "leader"]]
    /\ session = 0

-----------------------------------------------------------------------------
(* The leader waits for the follower: _submit_basis_list_leader and        *)
(* _wait_for_follower_ready.                                               *)

PollUnchanged == UNCHANGED <<role, cancel_event, result_event, following,
                             question_order, position, wait, fetch, reset, session>>

\* A look at the cancellation, then a request to followers_address, which is ""
\* when the node has been reset.
Poll ==
    CASE cancel_event["leader"]        -> "conflict"
      [] ~cancel_event["leader"] /\ role["leader"] = "LEADER" -> "polling"
      [] OTHER                         -> "failed"

SubmitBasisListLeader(r) ==
    /\ r \notin DirectRuns
    /\ run[r].pc = "idle"
    /\ role["leader"] = "LEADER"
    /\ \E list \in ChosenLists : leading' = [leading EXCEPT !.basis_list = list]
    /\ run' = [run EXCEPT ![r].pc = Poll, ![r].session = session]
    /\ PollUnchanged

IsFollowerReady(r) ==
    /\ run[r].pc = "polling"
    /\ run' = [run EXCEPT ![r].pc = "polled", ![r].reply =
                 CASE role["follower"] # "FOLLOWER" -> "503"
                   [] role["follower"] = "FOLLOWER"
                      /\ Len(following.basis_list) = BitLength -> "ready"
                   [] OTHER -> "not ready"]
    /\ UNCHANGED leading
    /\ PollUnchanged

\* _qkd: the loop runs over the list as it is now; an empty one leaves nothing to
\* do but the comparison.
Begin(rec) ==
    [rec EXCEPT !.reply = "none",
                !.todo = leading.basis_list,
                !.pc = IF leading.basis_list = <<>> THEN "comparing" ELSE "handshaking"]

\* Mutant: every 503 is forgiven, not only the first.
PollForgives(r) ==
    /\ run[r].pc = "polled"
    /\ \/ /\ run[r].reply = "503"
          /\ run' = [run EXCEPT ![r].pc = Poll, ![r].reply = "none"]
       \/ /\ run[r].reply = "ready" /\ role["leader"] = "LEADER"
          /\ run' = [run EXCEPT ![r] = Begin(@)]
    /\ UNCHANGED leading
    /\ PollUnchanged

PollAnswered(r) ==
    /\ run[r].pc = "polled"
    /\ \/ /\ run[r].reply = "503" /\ ~run[r].excused
          /\ run' = [run EXCEPT ![r].pc = Poll, ![r].reply = "none", ![r].excused = TRUE]
       \/ /\ run[r].reply = "503" /\ run[r].excused
          /\ run' = [run EXCEPT ![r].pc = "failed", ![r].reply = "none"]
       \/ /\ run[r].reply = "not ready"
          /\ run' = [run EXCEPT ![r].pc = "pausing", ![r].reply = "none"]
       \/ /\ run[r].reply = "ready" /\ role["leader"] = "LEADER"
          /\ run' = [run EXCEPT ![r] = Begin(@)]
       \/ /\ run[r].reply = "ready" /\ role["leader"] # "LEADER"
          /\ run' = [run EXCEPT ![r].pc = "failed", ![r].reply = "none"]
    /\ UNCHANGED leading
    /\ PollUnchanged

PauseOver(r) ==
    /\ run[r].pc = "pausing"
    /\ run' = [run EXCEPT ![r].pc = Poll]
    /\ UNCHANGED leading
    /\ PollUnchanged

\* POST /qkd: the caller names the follower, and nothing is awaited or submitted.
QKD(r) ==
    /\ r \in DirectRuns
    /\ run[r].pc = "idle"
    /\ leading.basis_list # <<>>
    /\ run' = [run EXCEPT ![r] = [Begin(@) EXCEPT !.session = session]]
    /\ UNCHANGED leading
    /\ PollUnchanged

-----------------------------------------------------------------------------
(* The exchange: _qkd on the leader, single_bit and request_basis_list on  *)
(* the follower.                                                           *)

ExchangeUnchanged == UNCHANGED <<role, cancel_event, question_order, fetch, reset, session>>

\* The choice the leader's run is about to make or has just asked the follower for.
Bit(r) == <<r, Len(run[r].counts) + 1>>

\* request_qkd_single_pass: the wave plate may be unavailable before anything is
\* changed, or fail to move after everything is.
SingleBit(r) ==
    LET i == following.index + 1 IN
    /\ run[r].pc = "handshaking"
    /\ \/ /\ i > Len(following.basis_list)
          /\ run' = [run EXCEPT ![r].pc = "handshaken", ![r].reply = "400"]
          /\ UNCHANGED <<following, position>>
       \/ /\ r \in FailingRuns
          /\ run' = [run EXCEPT ![r].pc = "handshaken", ![r].reply = "500"]
          /\ UNCHANGED <<following, position>>
       \/ /\ i <= Len(following.basis_list)
          /\ following' = [following EXCEPT !.index = i, !.requests =
                Append(@, [basis |-> following.basis_list[i], choice |-> Bit(r)])]
          /\ \/ /\ position' = [position EXCEPT !["follower"] = Bit(r)]
                /\ run' = [run EXCEPT ![r].pc = "handshaken", ![r].reply = "ok"]
             \/ /\ r \in FailingRuns
                /\ run' = [run EXCEPT ![r].pc = "handshaken", ![r].reply = "500"]
                /\ UNCHANGED position
    /\ UNCHANGED <<leading, result_event, wait>>
    /\ ExchangeUnchanged

ChooseBit(r) ==
    /\ run[r].pc = "handshaken"
    /\ \/ /\ run[r].reply # "ok"
          /\ run' = [run EXCEPT ![r].pc = "failed", ![r].reply = "none"]
          /\ UNCHANGED <<leading, position>>
       \/ /\ run[r].reply = "ok"
          /\ leading' = [leading EXCEPT !.bit_list = Append(@, Bit(r))]
          /\ \/ /\ position' = [position EXCEPT !["leader"] = Bit(r)]
                /\ run' = [run EXCEPT ![r].pc = "measuring", ![r].reply = "none"]
             \/ /\ r \in FailingRuns
                /\ run' = [run EXCEPT ![r].pc = "failed", ![r].reply = "none"]
                /\ UNCHANGED position
    /\ UNCHANGED <<following, result_event, wait>>
    /\ ExchangeUnchanged

\* The time tagger counts with the wave plates as they stand.
MeasureCorrelation(r) ==
    /\ run[r].pc = "measuring"
    /\ \/ run' = [run EXCEPT ![r].pc = "measured", ![r].reply = "ok",
                             ![r].counts = Append(@, position)]
       \/ /\ r \in FailingRuns
          /\ run' = [run EXCEPT ![r].pc = "measured", ![r].reply = "500"]
    /\ UNCHANGED <<leading, following, position, result_event, wait>>
    /\ ExchangeUnchanged

\* zip(qkd_leader_basis_list, qkd_bit_list, counts, strict=False)
Outcome(counts) ==
    [i \in {j \in 1..Len(counts) : j <= Len(leading.bit_list) /\ j <= Len(leading.basis_list)} |->
        [choice |-> leading.bit_list[i], count |-> counts[i]]]

\* Mutant: the loop runs once too often.
OneMoreBit(counts, todo) == Len(counts) <= Len(todo)

BitsLeft(counts, todo) == Len(counts) < Len(todo)

CountReceived(r) ==
    LET measured == run[r] IN
    /\ measured.pc = "measured"
    /\ \/ /\ measured.reply # "ok"
          /\ run' = [run EXCEPT ![r].pc = "failed", ![r].reply = "none"]
       \/ /\ measured.reply = "ok" /\ BitsLeft(measured.counts, measured.todo)
          /\ run' = [run EXCEPT ![r].pc = "handshaking", ![r].reply = "none"]
       \/ /\ measured.reply = "ok" /\ ~BitsLeft(measured.counts, measured.todo)
          /\ run' = [run EXCEPT ![r].pc = "comparing", ![r].reply = "none",
                                ![r].bases = leading.basis_list,
                                ![r].outcome = Outcome(measured.counts)]
    /\ UNCHANGED <<leading, following, position, result_event, wait>>
    /\ ExchangeUnchanged

\* request_qkd_basis_list
RequestBasisList(r) ==
    /\ run[r].pc = "comparing"
    /\ \/ /\ Len(run[r].bases) # Len(following.requests)
          /\ run' = [run EXCEPT ![r].pc = "compared", ![r].reply = "400"]
          /\ UNCHANGED following
       \/ /\ Len(run[r].bases) = Len(following.requests)
          /\ run' = [run EXCEPT ![r].pc = "compared", ![r].reply = "ok",
                                ![r].compared = following.requests]
          /\ following' = [following EXCEPT !.requests = <<>>]
    /\ UNCHANGED <<leading, position, result_event, wait>>
    /\ ExchangeUnchanged

\* The positions where both nodes used the same basis.
IndexList(r) == {i \in DOMAIN run[r].compared : run[r].compared[i].basis = run[r].bases[i]}

\* The run fails when the leader has no outcome for a position, or has been reset
\* and has no address to submit the result to.
BasisListReceived(r) ==
    LET answered == run[r].reply = "ok" /\ IndexList(r) \subseteq DOMAIN run[r].outcome IN
    /\ run[r].pc = "compared"
    /\ run' = [run EXCEPT ![r].reply = "none", ![r].pc =
                 CASE answered /\ r \in DirectRuns -> "done"
                   [] answered /\ r \notin DirectRuns /\ role["leader"] = "LEADER" -> "submitting"
                   [] OTHER -> "failed"]
    /\ UNCHANGED <<leading, following, position, result_event, wait>>
    /\ ExchangeUnchanged

\* result_event.set() and protocol_cancelled_event.set() wake the follower's handler.
WaitersWoken ==
    [w \in Waits |-> IF wait[w].pc = "waiting" THEN [wait[w] EXCEPT !.pc = "woken"]
                                               ELSE wait[w]]

\* Mutant: the result is stored without a signal.
ResultUnsignalled(r) ==
    /\ run[r].pc = "submitting"
    /\ following' = [following EXCEPT !.n_matching_bits = Cardinality(IndexList(r))]
    /\ run' = [run EXCEPT ![r].pc = "done"]
    /\ UNCHANGED <<leading, position, result_event, wait>>
    /\ ExchangeUnchanged

\* The leader has nothing left to do once its result is stored.
SubmitResult(r) ==
    /\ run[r].pc = "submitting"
    /\ following' = [following EXCEPT !.n_matching_bits = Cardinality(IndexList(r))]
    /\ result_event' = TRUE
    /\ wait' = WaitersWoken
    /\ run' = [run EXCEPT ![r].pc = "done"]
    /\ UNCHANGED <<leading, position>>
    /\ ExchangeUnchanged

-----------------------------------------------------------------------------
(* The follower's submission: _submit_basis_list_follower. *)

WaitUnchanged == UNCHANGED <<role, cancel_event, leading, question_order, position,
                             run, fetch, reset, session>>

SubmitBasisListFollower(w) ==
    /\ wait[w].pc = "idle"
    /\ role["follower"] = "FOLLOWER"
    /\ \E list \in ChosenLists : following' = [following EXCEPT !.basis_list = list]
    /\ \/ /\ following.n_matching_bits = -1
          /\ wait' = [wait EXCEPT ![w].pc = "spawned", ![w].session = session]
          /\ UNCHANGED result_event
       \/ /\ following.n_matching_bits # -1
          /\ wait' = [wait EXCEPT ![w] = [pc |-> "returned", session |-> session,
                                          bits |-> following.n_matching_bits]]
          /\ result_event' = FALSE
    /\ WaitUnchanged

\* Mutant: the wait ends after a while, whatever has come.
FollowerWaitsAWhile(w) ==
    /\ wait[w].pc = "spawned"
    /\ wait' = [wait EXCEPT ![w].pc = "woken"]
    /\ UNCHANGED <<following, result_event>>
    /\ WaitUnchanged

\* The two tasks that wait for the events start.
FollowerWaits(w) ==
    /\ wait[w].pc = "spawned"
    /\ wait' = [wait EXCEPT ![w].pc =
                  IF result_event \/ cancel_event["follower"] THEN "woken" ELSE "waiting"]
    /\ UNCHANGED <<following, result_event>>
    /\ WaitUnchanged

\* Mutant: the event is not cleared.
FollowerLeavesEvent(w) ==
    /\ wait[w].pc = "woken"
    /\ wait' = [wait EXCEPT ![w].pc = "returned", ![w].bits = following.n_matching_bits]
    /\ UNCHANGED <<following, result_event>>
    /\ WaitUnchanged

FollowerResumes(w) ==
    /\ wait[w].pc = "woken"
    /\ \/ /\ cancel_event["follower"]
          /\ wait' = [wait EXCEPT ![w].pc = "conflict"]
          /\ UNCHANGED result_event
       \/ /\ ~cancel_event["follower"]
          /\ wait' = [wait EXCEPT ![w].pc = "returned",
                                  ![w].bits = following.n_matching_bits]
          /\ result_event' = FALSE
    /\ UNCHANGED following
    /\ WaitUnchanged

-----------------------------------------------------------------------------
(* The question order. *)

FetchUnchanged == UNCHANGED <<role, cancel_event, result_event, leading, following,
                              position, run, wait, reset, session>>

\* Mutant: the leader draws anew for every caller.
DrawnEachTime(o) == o \in Orders

\* What request_question_order returns on the leader.
LeadersOrder(o) ==
    IF question_order["leader"] = NoOrder THEN o \in Orders
                                          ELSE o = question_order["leader"]

RequestQuestionOrder(f, n) ==
    /\ fetch[f].pc = "idle"
    /\ role[n] # "INDEPENDENT"
    /\ \/ /\ n = "follower" /\ question_order[n] = NoOrder
          /\ fetch' = [fetch EXCEPT ![f].pc = "fetching"]
          /\ UNCHANGED question_order
       \/ /\ n = "follower" /\ question_order[n] # NoOrder
          /\ fetch' = [fetch EXCEPT ![f] = [pc |-> "returned", order |-> question_order[n]]]
          /\ UNCHANGED question_order
       \/ /\ n = "leader"
          /\ \E o \in Orders :
                /\ LeadersOrder(o)
                /\ question_order' = [question_order EXCEPT ![n] = o]
                /\ fetch' = [fetch EXCEPT ![f] = [pc |-> "returned", order |-> o]]
    /\ FetchUnchanged

\* The request of the follower reaches the leader.
LeaderAnswersOrder(f) ==
    /\ fetch[f].pc = "fetching"
    /\ \/ /\ role["leader"] = "INDEPENDENT"
          /\ fetch' = [fetch EXCEPT ![f].pc = "failed"]
          /\ UNCHANGED question_order
       \/ /\ role["leader"] = "LEADER"
          /\ \E o \in Orders :
                /\ LeadersOrder(o)
                /\ question_order' = [question_order EXCEPT !["leader"] = o]
                /\ fetch' = [fetch EXCEPT ![f] = [pc |-> "fetched", order |-> o]]
    /\ FetchUnchanged

OrderFetched(f) ==
    /\ fetch[f].pc = "fetched"
    /\ question_order' = [question_order EXCEPT !["follower"] = fetch[f].order]
    /\ fetch' = [fetch EXCEPT ![f].pc = "returned"]
    /\ FetchUnchanged

-----------------------------------------------------------------------------
(* Pairing and resets (coordination.py). *)

\* The handshake of module Coordination, used as intended: both nodes are free.
Pair ==
    /\ \A n \in Nodes : role[n] = "INDEPENDENT"
    /\ role' = [n \in Nodes |-> Role(n)]
    /\ session' = session + 1
    /\ UNCHANGED <<cancel_event, result_event, leading, following, question_order,
                   position, run, wait, fetch, reset>>

\* Mutant: the bits survive.
LocalResetKeepsBits(n) ==
    /\ role' = [role EXCEPT ![n] = "INDEPENDENT"]
    /\ cancel_event' = [cancel_event EXCEPT ![n] = FALSE]
    /\ question_order' = [question_order EXCEPT ![n] = NoOrder]
    /\ \/ /\ n = "leader"
          /\ leading' = [leading EXCEPT !.basis_list = <<>>]
          /\ UNCHANGED <<following, wait>>
       \/ /\ n = "follower"
          /\ following' = [basis_list |-> <<>>, index |-> 0, requests |-> <<>>,
                           n_matching_bits |-> -1]
          /\ wait' = WaitersWoken
          /\ UNCHANGED leading

\* Mutant: the index survives.
LocalResetKeepsIndex(n) ==
    /\ role' = [role EXCEPT ![n] = "INDEPENDENT"]
    /\ cancel_event' = [cancel_event EXCEPT ![n] = FALSE]
    /\ question_order' = [question_order EXCEPT ![n] = NoOrder]
    /\ \/ /\ n = "leader"
          /\ leading' = [basis_list |-> <<>>, bit_list |-> <<>>]
          /\ UNCHANGED <<following, wait>>
       \/ /\ n = "follower"
          /\ following' = [following EXCEPT !.basis_list = <<>>, !.requests = <<>>,
                                            !.n_matching_bits = -1]
          /\ wait' = WaitersWoken
          /\ UNCHANGED leading

\* What a reset does to its own node.  The event is set, which wakes the follower's
\* handler, and cleared again before it runs; the result's event is left alone.
LocalReset(n) ==
    /\ role' = [role EXCEPT ![n] = "INDEPENDENT"]
    /\ cancel_event' = [cancel_event EXCEPT ![n] = FALSE]
    /\ question_order' = [question_order EXCEPT ![n] = NoOrder]
    /\ \/ /\ n = "leader"
          /\ leading' = [basis_list |-> <<>>, bit_list |-> <<>>]
          /\ UNCHANGED <<following, wait>>
       \/ /\ n = "follower"
          /\ following' = [basis_list |-> <<>>, index |-> 0, requests |-> <<>>,
                           n_matching_bits |-> -1]
          /\ wait' = WaitersWoken
          /\ UNCHANGED leading

ResetUnchanged == UNCHANGED <<result_event, position, run, fetch, session>>

ResetStart(x, n) ==
    /\ reset[x].pc = "idle"
    /\ \/ /\ role[n] = "INDEPENDENT"
          /\ reset' = [reset EXCEPT ![x] = [pc |-> "done", node |-> n]]
          /\ LocalReset(n)
       \/ /\ role[n] # "INDEPENDENT"
          /\ reset' = [reset EXCEPT ![x] = [pc |-> "notifying", node |-> n]]
          /\ UNCHANGED <<role, cancel_event, leading, following, question_order, wait>>
    /\ ResetUnchanged

\* The peer is told: its event is set for half a second.
ProtocolCancelled(x) ==
    LET peer == Peer(reset[x].node) IN
    /\ reset[x].pc = "notifying"
    /\ reset' = [reset EXCEPT ![x].pc = "sleeping"]
    /\ cancel_event' = [cancel_event EXCEPT ![peer] = TRUE]
    /\ wait' = IF peer = "follower" THEN WaitersWoken ELSE wait
    /\ UNCHANGED <<role, leading, following, question_order>>
    /\ ResetUnchanged

ProtocolCancelledClears(x) ==
    /\ reset[x].pc = "sleeping"
    /\ reset' = [reset EXCEPT ![x].pc = "notified"]
    /\ cancel_event' = [cancel_event EXCEPT ![Peer(reset[x].node)] = FALSE]
    /\ UNCHANGED <<role, leading, following, question_order, wait>>
    /\ ResetUnchanged

ResetFinish(x) ==
    /\ \/ reset[x].pc = "notified"
       \/ reset[x].pc = "notifying" /\ x \in LostResets
    /\ reset' = [reset EXCEPT ![x].pc = "done"]
    /\ LocalReset(reset[x].node)
    /\ ResetUnchanged

\* A generator of state_events reports the cancellation and clears it.
StreamClears(n) ==
    /\ n \in Watched
    /\ cancel_event[n]
    /\ cancel_event' = [cancel_event EXCEPT ![n] = FALSE]
    /\ UNCHANGED <<role, leading, following, question_order, wait, reset>>
    /\ ResetUnchanged

-----------------------------------------------------------------------------
RunStep(r) ==
    \/ IsFollowerReady(r)
    \/ PollAnswered(r)
    \/ PauseOver(r)
    \/ SingleBit(r)
    \/ ChooseBit(r)
    \/ MeasureCorrelation(r)
    \/ CountReceived(r)
    \/ RequestBasisList(r)
    \/ BasisListReceived(r)
    \/ SubmitResult(r)

WaitStep(w) == FollowerWaits(w) \/ FollowerResumes(w)
FetchStep(f) == LeaderAnswersOrder(f) \/ OrderFetched(f)
ResetStep(x) == ProtocolCancelled(x) \/ ProtocolCancelledClears(x) \/ ResetFinish(x)

Next ==
    \/ Pair
    \/ \E r \in Runs : SubmitBasisListLeader(r) \/ QKD(r) \/ RunStep(r)
    \/ \E w \in Waits : SubmitBasisListFollower(w) \/ WaitStep(w)
    \/ \E f \in Fetches, n \in Nodes : RequestQuestionOrder(f, n)
    \/ \E f \in Fetches : FetchStep(f)
    \/ \E x \in Resets, n \in Nodes : ResetStart(x, n)
    \/ \E x \in Resets : ResetStep(x)
    \/ \E n \in Nodes : StreamClears(n)

Spec == Init /\ [][Next]_vars

\* The event loops run every ready handler, the nodes answer each other, pauses end.
\* No user has to pair, submit, fetch or reset.
Fairness ==
    /\ \A r \in Runs : WF_vars(RunStep(r))
    /\ \A w \in Waits : WF_vars(WaitStep(w))
    /\ \A f \in Fetches : WF_vars(FetchStep(f))
    /\ \A x \in Resets : WF_vars(ResetStep(x))

FairSpec == Spec /\ Fairness

\* Nothing of a session is under way any more.
Settled ==
    /\ \A r \in Runs : run[r].pc \in {"idle"} \cup Ended
    /\ \A w \in Waits : wait[w].pc \in {"idle", "returned", "conflict"}
    /\ \A f \in Fetches : fetch[f].pc \in {"idle", "returned", "failed"}
    /\ \A x \in Resets : reset[x].pc \in {"idle", "done"}

\* The follower's user submits once in a session.
SubmittedOnce ==
    \A v, w \in Waits : wait[v].session = wait[w].session => v = w \/ wait[v].session = 0

\* Users who cancel at any time, but pair again, and submit, once what they
\* cancelled has ended; each submits once in a session.
OnceASession ==
    /\ \A r, s \in Runs : run[r].session = run[s].session => r = s \/ run[r].session = 0
    /\ SubmittedOnce

SettledNext == Next /\ OnceASession' /\ (session' # session => Settled)

SettledSpec == Init /\ [][SettledNext]_vars

\* Users who, besides, let a game end before they reset, and a reset before they play.
Playing == <<{r \in Runs : run[r].pc # "idle"}, {w \in Waits : wait[w].pc # "idle"},
             {f \in Fetches : fetch[f].pc # "idle"}>>
Resetting == {x \in Resets : reset[x].pc # "idle"}

OrderlyNext ==
    /\ SettledNext
    /\ Resetting' # Resetting => Settled
    /\ Playing' # Playing => \A x \in Resets : reset[x].pc \in {"idle", "done"}

OrderlySpec == Init /\ [][OrderlyNext]_vars

FairOrderlySpec == OrderlySpec /\ Fairness

-----------------------------------------------------------------------------
(* Properties that hold of every interleaving. *)

\* A follower that returns a result returns one that a finished run has computed, of
\* this session or an earlier one; it returns that nothing was computed (-1) only after a
\* reset, whose event may be cleared before the woken handler looks at it.
ResultsAreComputed ==
    \A w \in Waits : wait[w].pc = "returned" =>
        \/ wait[w].bits = -1 /\ \E x \in Resets : reset[x].pc # "idle"
        \/ \E r \in Runs \ DirectRuns :
              run[r].pc = "done" /\ wait[w].bits = Cardinality(IndexList(r))

\* The follower keeps no more requests than it has served since its last reset, whatever
\* runs, failures and resets overlap; and it has served no more bits than its user has chosen
\* bases, unless the user has submitted a second, shorter list in the session.
FollowerInStep ==
    /\ Len(following.requests) <= following.index
    /\ SubmittedOnce => following.index <= Len(following.basis_list)

\* A leader does not poll for ever a follower that has left the session, even if
\* it misses the half second in which the cancellation is signalled.
LeaderStopsPolling ==
    \A r \in Runs \ DirectRuns :
        run[r].pc \in Polling /\ role["follower"] = "INDEPENDENT"
            ~> run[r].pc \notin Polling \/ role["follower"] = "FOLLOWER"

-----------------------------------------------------------------------------
(* Properties of the orderly use; each is broken by a cancellation. *)

\* The key is shared: every bit the leader computes comes from the choice of its
\* own position and from a count that was taken with exactly this choice and with
\* the choice the follower keeps for the same position.
KeysAgree ==
    \A r \in Runs : run[r].pc \in {"submitting", "done"} =>
        \A i \in IndexList(r) :
            LET bit == run[r].outcome[i] IN
            /\ bit.choice = <<r, i>>
            /\ bit.count.leader = bit.choice
            /\ bit.count.follower = run[r].compared[i].choice

\* A follower that returns a result returns that of a run of its own session which
\* the leader has completed.
ResultsAgree ==
    \A w \in Waits : wait[w].pc = "returned" =>
        \E r \in Runs : /\ run[r].pc = "done"
                        /\ run[r].session = wait[w].session
                        /\ wait[w].bits = Cardinality(IndexList(r))

\* In a session both users are asked the same questions.
SameQuestions ==
    (\A n \in Nodes : role[n] = Role(n) /\ question_order[n] # NoOrder)
        => question_order["leader"] = question_order["follower"]

\* Both users have submitted in the current session, and lists of the length that the
\* follower's node is ready with.
BothSubmitted(w) ==
    /\ session # 0
    /\ wait[w].session = session
    /\ \E r \in Runs : run[r].session = session
    /\ Len(following.basis_list) = BitLength
    /\ Len(leading.basis_list) = BitLength

\* When both users have submitted such lists in a session, both get their result.
EverySubmissionReturns ==
    \A w \in Waits :
        BothSubmitted(w)
            ~> /\ wait[w].pc = "returned"
               /\ \E r \in Runs : run[r].session = wait[w].session /\ run[r].pc = "done"

=============================================================================
