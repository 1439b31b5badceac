---------------------------- MODULE Coordination ----------------------------
(***************************************************************************)
(* The leader/follower handshake of the PQN node API                       *)
(* (app/api/routes/coordination.py), with the asyncio event loop of each   *)
(* node, the HTTP calls between nodes, the GUI's websocket, the SSE        *)
(* stream and the resets that tear a session down.                         *)
(*                                                                         *)
(* One action is one segment of a handler between two awaits: the event    *)
(* loop runs it without interruption.  The variables are read and written  *)
(* at the same side of each await as in the code.                          *)
(***************************************************************************)
EXTENDS Naturals, FiniteSets

CONSTANTS
    Nodes,        \* the nodes of the network
    NoNode,       \* the empty address ""
    Collectors,   \* the nodes whose user may ask another node to follow
    Calls,        \* identities of the calls of /coordination/collect_follower
    FailingCalls, \* those whose HTTP request may time out or lose its connection
    Sockets,      \* identities of the websocket connections
    ClosingSockets, \* those the browser may close
    SlowSockets, \* those whose write buffer may be full, so that a send has to wait
    Resets,       \* identities of the calls of /coordination/reset_coordination_state
    Streams       \* identities of the connections to /coordination/state_events

ASSUME CoordinationAssumption ==
    /\ NoNode \notin Nodes
    /\ Collectors \subseteq Nodes
    /\ FailingCalls \subseteq Calls
    /\ ClosingSockets \subseteq Sockets
    /\ SlowSockets \subseteq Sockets

Roles == {"INDEPENDENT", "LEADER", "FOLLOWER"}
Responses == {"none", "yes", "no"}
Address == Nodes \cup {NoNode}

VARIABLES
    state,       \* the NodeState of each node
    ask_event,   \* ask_user_for_follow_event.is_set() on each node
    reply_event, \* user_replied_event.is_set() on each node
    cancel_event,\* protocol_cancelled_event.is_set() on each node
    call,        \* the two ends of each collect_follower / follow_requested call
    socket,      \* the websocket of a GUI and its ask_user_for_follow_handler
    reset,       \* the calls of reset_coordination_state and their notification
    stream,      \* the SSE generators of state_events
    consent,     \* history: whom the user of a node has said yes to since its last reset
    notified     \* history: the peers that announced their reset to a node since the two paired

vars == <<state, ask_event, reply_event, cancel_event, call, socket, reset,
          stream, consent, notified>>

-----------------------------------------------------------------------------
(* Types *)

NodeState ==
    [role: Roles,
     followers_address: Address,
     leaders_address: Address,      \* leaders_name is always assigned with it
     following_requested: BOOLEAN,
     user_response: Responses,      \* following_requested_user_response
     listening: BOOLEAN]            \* client_listening_for_follower_requests

\* collect is where the caller is, follow where the handler of the target is.
\* A call with follow = "answered" and collect = "posted" is a response in flight.
Call ==
    [leader: Address, target: Address,
     collect: {"idle", "posted", "done", "failed"},
     follow: {"none", "sent", "spawned", "waiting", "woken", "answered"},
     accepted: BOOLEAN]

\* ask is the task that puts the question, questions the leaders it has named
\* to the user and the user has not answered (nor will, once the page is gone).
Socket ==
    [node: Address,
     conn: {"idle", "open", "gone"},
     ask: {"none", "spawned", "waiting", "woken", "sending", "ended"},
     questions: SUBSET Nodes]

Reset ==
    [node: Address, peer: Address,
     pc: {"idle", "notifying", "done"},
     note: {"none", "sent", "sleeping", "done"}]

Stream ==
    [node: Address,
     pc: {"idle", "waiting", "woken", "reporting", "sleeping", "closed"}]

TypeOK ==
    /\ state \in [Nodes -> NodeState]
    /\ ask_event \in [Nodes -> BOOLEAN]
    /\ reply_event \in [Nodes -> BOOLEAN]
    /\ cancel_event \in [Nodes -> BOOLEAN]
    /\ call \in [Calls -> Call]
    /\ socket \in [Sockets -> Socket]
    /\ reset \in [Resets -> Reset]
    /\ stream \in [Streams -> Stream]
    /\ consent \in [Nodes -> SUBSET Nodes]
    /\ notified \in [Nodes -> SUBSET Nodes]

-----------------------------------------------------------------------------
(* Initial state: one freshly started process per node. *)

InitialNodeState ==
    [role |-> "INDEPENDENT", followers_address |-> NoNode,
     leaders_address |-> NoNode, following_requested |-> FALSE,
     user_response |-> "none", listening |-> FALSE]

Init ==
    /\ state = [n \in Nodes |-> InitialNodeState]
    /\ ask_event = [n \in Nodes |-> FALSE]
    /\ reply_event = [n \in Nodes |-> FALSE]
    /\ cancel_event = [n \in Nodes |-> FALSE]
    /\ call = [c \in Calls |->
                 [leader |-> NoNode, target |-> NoNode, collect |-> "idle",
                  follow |-> "none", accepted |-> FALSE]]
    /\ socket = [w \in Sockets |->
                   [node |-> NoNode, conn |-> "idle", ask |-> "none", questions |-> {}]]
    /\ reset = [r \in Resets |->
                  [node |-> NoNode, peer |-> NoNode, pc |-> "idle", note |-> "none"]]
    /\ stream = [s \in Streams |-> [node |-> NoNode, pc |-> "idle"]]
    /\ consent = [n \in Nodes |-> {}]
    /\ notified = [n \in Nodes |-> {}]

-----------------------------------------------------------------------------
(* asyncio.Event.set() resolves the future of every task that waits: such a *)
(* task continues even if the flag is cleared before it runs again.         *)

FollowWaitersWoken(n) ==
    [c \in Calls |-> IF call[c].target = n /\ call[c].follow = "waiting"
                       THEN [call[c] EXCEPT !.follow = "woken"]
                       ELSE call[c]]

\* Mutant: the flag is set, and nobody is told.
AskWaitersForgotten(n) == socket

AskWaitersWoken(n) ==
    [w \in Sockets |-> IF socket[w].node = n /\ socket[w].ask = "waiting"
                         THEN [socket[w] EXCEPT !.ask = "woken"]
                         ELSE socket[w]]

StreamWaitersWoken(n) ==
    [s \in Streams |-> IF stream[s].node = n /\ stream[s].pc = "waiting"
                         THEN [stream[s] EXCEPT !.pc = "woken"]
                         ELSE stream[s]]

-----------------------------------------------------------------------------
(* collect_follower, on the node that wants to lead. *)

\* The endpoint checks nothing about its own node before it posts, not even that the
\* address is another's.
CollectFollower(c, l, f) ==
    /\ call[c].collect = "idle"
    /\ call' = [call EXCEPT ![c] = [leader |-> l, target |-> f, collect |-> "posted",
                                    follow |-> "sent", accepted |-> FALSE]]
    /\ UNCHANGED <<state, ask_event, reply_event, cancel_event, socket, reset,
                   stream, consent, notified>>

\* Mutant: any answer makes a leader.
CollectAnsweredUnchecked(c) ==
    /\ call[c].collect = "posted"
    /\ call[c].follow = "answered"
    /\ call' = [call EXCEPT ![c].collect = "done"]
    /\ state' = [state EXCEPT ![call[c].leader] =
                   [@ EXCEPT !.role = "LEADER", !.followers_address = call[c].target]]
    /\ UNCHANGED <<ask_event, reply_event, cancel_event, socket, reset, stream,
                   consent, notified>>

\* The response arrives: this is what makes the caller a leader.
CollectAnswered(c) ==
    /\ call[c].collect = "posted"
    /\ call[c].follow = "answered"
    /\ call' = [call EXCEPT ![c].collect = "done"]
    /\ \/ /\ call[c].accepted
          /\ state' = [state EXCEPT ![call[c].leader] =
                         [@ EXCEPT !.role = "LEADER",
                                   !.followers_address = call[c].target]]
       \/ /\ ~call[c].accepted
          /\ UNCHANGED state
    /\ UNCHANGED <<ask_event, reply_event, cancel_event, socket, reset, stream,
                   consent, notified>>

\* The HTTP client gives up (60 s) or loses the connection, and collect_follower
\* raises.  The handler on the other node is not cancelled by that, and a request
\* still on its way may yet arrive.
CollectFails(c) ==
    /\ c \in FailingCalls
    /\ call[c].collect = "posted"
    /\ call' = [call EXCEPT ![c].collect = "failed"]
    /\ UNCHANGED <<state, ask_event, reply_event, cancel_event, socket, reset,
                   stream, consent, notified>>

-----------------------------------------------------------------------------
(* follow_requested, on the node that is asked to follow. *)

\* Mutant: the role of the node is not looked at.
MayBeAskedInAnyRole(n) == state[n].listening

MayBeAsked(n) == state[n].listening /\ state[n].role = "INDEPENDENT"

\* Up to the creation of the two wait tasks; they start in a later pass of the
\* event loop.
FollowRequested(c) ==
    LET n == call[c].target IN
    /\ call[c].follow = "sent"
    /\ \/ /\ ~MayBeAsked(n)
          /\ call' = [call EXCEPT ![c].follow = "answered"]
          /\ UNCHANGED <<state, ask_event, socket>>
       \/ /\ MayBeAsked(n)
          /\ call' = [call EXCEPT ![c].follow = "spawned"]
          /\ state' = [state EXCEPT ![n] =
                         [@ EXCEPT !.following_requested = TRUE,
                                   !.leaders_address = call[c].leader]]
          /\ ask_event' = [ask_event EXCEPT ![n] = TRUE]
          /\ socket' = AskWaitersWoken(n)
    /\ UNCHANGED <<reply_event, cancel_event, reset, stream, consent, notified>>

\* The wait tasks start: a flag that is set ends the wait at once.
FollowWaits(c) ==
    LET n == call[c].target IN
    /\ call[c].follow = "spawned"
    /\ call' = [call EXCEPT ![c].follow =
                  IF reply_event[n] \/ cancel_event[n] THEN "woken" ELSE "waiting"]
    /\ UNCHANGED <<state, ask_event, reply_event, cancel_event, socket, reset,
                   stream, consent, notified>>

\* Mutant: the leader's name outlives the refusal.
FollowRefusedKeepsLeader(n) ==
    state' = [state EXCEPT ![n] =
                [@ EXCEPT !.following_requested = FALSE, !.user_response = "none"]]

FollowRefused(n) ==
    state' = [state EXCEPT ![n] =
                [@ EXCEPT !.leaders_address = NoNode,
                          !.following_requested = FALSE,
                          !.user_response = "none"]]

\* Mutant: an answer is taken for a yes.
UserAnswered(n) == ~cancel_event[n] /\ state[n].user_response # "none"

UserAccepted(n) == ~cancel_event[n] /\ state[n].user_response = "yes"

\* Neither the cancellation flag nor the answer is tied to one request: whichever
\* handler runs first consumes the reply, and each reads what it finds.
FollowResumes(c) ==
    LET n == call[c].target
        accept == UserAccepted(n)
    IN
    /\ call[c].follow = "woken"
    /\ call' = [call EXCEPT ![c] = [@ EXCEPT !.follow = "answered", !.accepted = accept]]
    /\ reply_event' = IF cancel_event[n] THEN reply_event
                                         ELSE [reply_event EXCEPT ![n] = FALSE]
    /\ \/ /\ accept
          /\ state' = [state EXCEPT ![n] =
                         [@ EXCEPT !.role = "FOLLOWER",
                                   !.leaders_address = call[c].leader]]
          /\ notified' = [notified EXCEPT ![n] = @ \ {call[c].leader},
                                          ![call[c].leader] = @ \ {n}]
       \/ /\ ~accept
          /\ FollowRefused(n)
          /\ UNCHANGED notified
    /\ UNCHANGED <<ask_event, cancel_event, socket, reset, stream, consent>>

-----------------------------------------------------------------------------
(* follow_requested_alerts: one websocket of the GUI, two tasks.            *)
(* client_message_handler is SocketReply and SocketClose,                   *)
(* ask_user_for_follow_handler is AskUser and QuestionSent.                 *)

SocketOpen(w, n) ==
    /\ socket[w].conn = "idle"
    /\ socket' = [socket EXCEPT ![w] =
                    [node |-> n, conn |-> "open", ask |-> "spawned", questions |-> {}]]
    /\ state' = [state EXCEPT ![n].listening = TRUE]
    /\ UNCHANGED <<ask_event, reply_event, cancel_event, call, reset, stream,
                   consent, notified>>

\* The GUI answers each question it was sent, once, whenever its user decides; the
\* wait tasks created in the meantime start long before the answer comes back.
SocketReply(w, l, answer) ==
    LET n == socket[w].node IN
    /\ socket[w].conn = "open"
    /\ l \in socket[w].questions
    /\ ~\E c \in Calls : call[c].target = n /\ call[c].follow = "spawned"
    /\ socket' = [socket EXCEPT ![w].questions = @ \ {l}]
    /\ state' = [state EXCEPT ![n] = [@ EXCEPT !.user_response = answer,
                                               !.following_requested = FALSE]]
    /\ reply_event' = [reply_event EXCEPT ![n] = TRUE]
    /\ call' = FollowWaitersWoken(n)
    /\ consent' = [consent EXCEPT ![n] = IF answer = "yes" THEN @ \cup {l} ELSE @]
    /\ UNCHANGED <<ask_event, cancel_event, reset, stream, notified>>

\* The message handler ends; the ask handler stays until its event wakes it.
SocketClose(w) ==
    /\ w \in ClosingSockets
    /\ socket[w].conn = "open"
    /\ socket' = [socket EXCEPT ![w].conn = "gone"]
    /\ state' = [state EXCEPT ![socket[w].node].listening = FALSE]
    /\ UNCHANGED <<ask_event, reply_event, cancel_event, call, reset, stream,
                   consent, notified>>

\* The task starts in a later pass of the event loop than SocketOpen.
AskWaits(w) ==
    /\ socket[w].ask = "spawned"
    /\ ~ask_event[socket[w].node]
    /\ socket' = [socket EXCEPT ![w].ask = "waiting"]
    /\ UNCHANGED <<state, ask_event, reply_event, cancel_event, call, reset, stream,
                   consent, notified>>

\* Mutant: the loop goes on, and the event is cleared for the page that comes next.
AskIgnoresClosing(w) ==
    /\ socket' = [socket EXCEPT ![w].ask = "waiting"]
    /\ ask_event' = [ask_event EXCEPT ![socket[w].node] = FALSE]

\* The page is gone: the task leaves the question to another page's task.
AskEnds(w) ==
    /\ socket' = [socket EXCEPT ![w].ask = "ended"]
    /\ UNCHANGED ask_event

\* Mutant: nobody checks that there still is a request.
AskUserUnchecked(w) ==
    LET n == socket[w].node IN
    /\ \/ socket[w].ask = "woken"
       \/ socket[w].ask = "spawned" /\ ask_event[n]
    /\ socket' = [socket EXCEPT ![w] =
                    [@ EXCEPT !.ask = "waiting",
                              !.questions = @ \cup {state[n].leaders_address}]]
    /\ ask_event' = [ask_event EXCEPT ![n] = FALSE]
    /\ UNCHANGED <<state, reply_event, cancel_event, call, reset, stream,
                   consent, notified>>

\* The question names whoever leaders_name names when the task gets to run.  An
\* await of send_text gives way to other tasks only if the write buffer is full.
AskUser(w) ==
    LET n == socket[w].node
        asked == socket[w].questions \cup {state[n].leaders_address}
    IN
    /\ \/ socket[w].ask = "woken"
       \/ socket[w].ask = "spawned" /\ ask_event[n]
    /\ \/ /\ state[n].following_requested
          /\ socket[w].conn = "open"
          /\ \/ /\ socket' = [socket EXCEPT ![w] =
                             [@ EXCEPT !.ask = "waiting",
                                       !.questions = asked]]
                /\ ask_event' = [ask_event EXCEPT ![n] = FALSE]
             \/ /\ w \in SlowSockets
                /\ socket' = [socket EXCEPT ![w] =
                             [@ EXCEPT !.ask = "sending",
                                       !.questions = asked]]
                /\ UNCHANGED ask_event
       \/ /\ state[n].following_requested
          /\ socket[w].conn = "gone"
          /\ AskEnds(w)
       \/ /\ ~state[n].following_requested
          /\ socket' = [socket EXCEPT ![w].ask = "waiting"]
          /\ ask_event' = [ask_event EXCEPT ![n] = FALSE]
    /\ UNCHANGED <<state, reply_event, cancel_event, call, reset, stream,
                   consent, notified>>

\* After a send_text that had to wait.  If the browser left meanwhile the send may
\* raise WebSocketDisconnect, which ends the task with the event still set.
QuestionSent(w) ==
    /\ socket[w].ask = "sending"
    /\ \/ /\ socket' = [socket EXCEPT ![w].ask = "waiting"]
          /\ ask_event' = [ask_event EXCEPT ![socket[w].node] = FALSE]
       \/ /\ socket[w].conn = "gone"
          /\ AskEnds(w)
    /\ UNCHANGED <<state, reply_event, cancel_event, call, reset, stream,
                   consent, notified>>

-----------------------------------------------------------------------------
(* reset_coordination_state and protocol_cancelled. *)

\* Mutant: a follower leaves in silence.
PeerOfLeader(n) == IF state[n].role = "LEADER" THEN state[n].followers_address ELSE NoNode

Peer(n) ==
    CASE state[n].role = "LEADER"   -> state[n].followers_address
      [] state[n].role = "FOLLOWER" -> state[n].leaders_address
      [] OTHER                      -> NoNode

\* Mutant: the answer of the user survives the reset.
LocalResetKeepsAnswer(n) ==
    /\ state' = [state EXCEPT ![n] =
                   [InitialNodeState EXCEPT !.listening = state[n].listening,
                                            !.user_response = state[n].user_response]]
    /\ cancel_event' = [cancel_event EXCEPT ![n] = FALSE]
    /\ call' = FollowWaitersWoken(n)
    /\ stream' = StreamWaitersWoken(n)
    /\ consent' = [consent EXCEPT ![n] = {}]

\* From protocol_cancelled_event.set() to its clear() without an await between:
\* every waiter is woken, and none of them finds the flag set.
LocalReset(n) ==
    /\ state' = [state EXCEPT ![n] =
                   [InitialNodeState EXCEPT !.listening = state[n].listening]]
    /\ cancel_event' = [cancel_event EXCEPT ![n] = FALSE]
    /\ call' = FollowWaitersWoken(n)
    /\ stream' = StreamWaitersWoken(n)
    /\ consent' = [consent EXCEPT ![n] = {}]

ResetStart(r, n) ==
    LET peer == Peer(n) IN
    /\ reset[r].pc = "idle"
    /\ \/ /\ peer = NoNode
          /\ reset' = [reset EXCEPT ![r] = [node |-> n, peer |-> NoNode,
                                            pc |-> "done", note |-> "none"]]
          /\ LocalReset(n)
          /\ UNCHANGED notified
       \/ /\ peer # NoNode
          /\ reset' = [reset EXCEPT ![r] = [node |-> n, peer |-> peer,
                                            pc |-> "notifying", note |-> "sent"]]
          /\ notified' = [notified EXCEPT ![peer] = @ \cup {n}]
          /\ UNCHANGED <<state, cancel_event, call, stream, consent>>
    /\ UNCHANGED <<ask_event, reply_event, socket>>

\* The await of the notification ends: answered, or failed (connection lost, or
\* 5 s without an answer; a notification still on its way may yet arrive).
ResetFinish(r) ==
    /\ reset[r].pc = "notifying"
    /\ reset' = [reset EXCEPT ![r].pc = "done"]
    /\ LocalReset(reset[r].node)
    /\ UNCHANGED <<ask_event, reply_event, socket, notified>>

\* protocol_cancelled on the peer, up to its sleep of 0.5 s.
ProtocolCancelled(r) ==
    LET n == reset[r].peer IN
    /\ reset[r].note = "sent"
    /\ reset' = [reset EXCEPT ![r].note = "sleeping"]
    /\ cancel_event' = [cancel_event EXCEPT ![n] = TRUE]
    /\ call' = FollowWaitersWoken(n)
    /\ stream' = StreamWaitersWoken(n)
    /\ UNCHANGED <<state, ask_event, reply_event, socket, consent, notified>>

ProtocolCancelledClears(r) ==
    /\ reset[r].note = "sleeping"
    /\ reset' = [reset EXCEPT ![r].note = "done"]
    /\ cancel_event' = [cancel_event EXCEPT ![reset[r].peer] = FALSE]
    /\ UNCHANGED <<state, ask_event, reply_event, call, socket, stream, consent, notified>>

-----------------------------------------------------------------------------
(* state_events: the SSE generator waits at most 1 s for a cancellation,    *)
(* reports it or sends a heartbeat, and sleeps 1 s.  pc = "sleeping" also   *)
(* stands for the yield of the first message.                               *)

StreamUnchanged == UNCHANGED <<state, ask_event, reply_event, call, socket,
                               reset, consent, notified>>

StreamOpen(s, n) ==
    /\ stream[s].pc = "idle"
    /\ stream' = [stream EXCEPT ![s] = [node |-> n, pc |-> "sleeping"]]
    /\ UNCHANGED cancel_event
    /\ StreamUnchanged

\* A flag that is set ends the wait before it begins.
StreamWaits(s) ==
    /\ stream[s].pc = "sleeping"
    /\ stream' = [stream EXCEPT ![s].pc = IF cancel_event[stream[s].node]
                                            THEN "reporting" ELSE "waiting"]
    /\ UNCHANGED cancel_event
    /\ StreamUnchanged

StreamTimeout(s) ==
    /\ stream[s].pc = "waiting"
    /\ stream' = [stream EXCEPT ![s].pc = "sleeping"]
    /\ UNCHANGED cancel_event
    /\ StreamUnchanged

StreamReports(s) ==
    /\ stream[s].pc = "woken"
    /\ stream' = [stream EXCEPT ![s].pc = "reporting"]
    /\ UNCHANGED cancel_event
    /\ StreamUnchanged

\* After the yield the generator clears the event for everybody on the node.
StreamClears(s) ==
    /\ stream[s].pc = "reporting"
    /\ stream' = [stream EXCEPT ![s].pc = "sleeping"]
    /\ cancel_event' = [cancel_event EXCEPT ![stream[s].node] = FALSE]
    /\ StreamUnchanged

\* The browser leaves: the generator is cancelled at whichever await it is.
StreamClose(s) ==
    /\ stream[s].pc \notin {"idle", "closed"}
    /\ stream' = [stream EXCEPT ![s].pc = "closed"]
    /\ UNCHANGED cancel_event
    /\ StreamUnchanged

-----------------------------------------------------------------------------
(* What users, browsers and the network decide, and what the loops do. *)

Environment ==
    \/ \E c \in Calls, l \in Collectors, f \in Nodes : CollectFollower(c, l, f)
    \/ \E c \in Calls : CollectFails(c)
    \/ \E w \in Sockets, n \in Nodes : SocketOpen(w, n)
    \/ \E w \in Sockets : SocketClose(w)
    \/ \E r \in Resets, n \in Nodes : ResetStart(r, n)
    \/ \E s \in Streams, n \in Nodes : StreamOpen(s, n)
    \/ \E s \in Streams : StreamClose(s)

UserAnswers ==
    \E w \in Sockets, l \in Nodes, answer \in {"yes", "no"} : SocketReply(w, l, answer)

CallStep(c) ==
    \/ FollowRequested(c)
    \/ FollowWaits(c)
    \/ FollowResumes(c)
    \/ CollectAnswered(c)

SocketStep(w) == AskWaits(w) \/ AskUser(w) \/ QuestionSent(w)

ResetStep(r) ==
    \/ ProtocolCancelled(r)
    \/ ProtocolCancelledClears(r)
    \/ ResetFinish(r)

StreamStep(s) ==
    \/ StreamWaits(s)
    \/ StreamTimeout(s)
    \/ StreamReports(s)
    \/ StreamClears(s)

Next ==
    \/ Environment
    \/ UserAnswers
    \/ \E c \in Calls : CallStep(c)
    \/ \E w \in Sockets : SocketStep(w)
    \/ \E r \in Resets : ResetStep(r)
    \/ \E s \in Streams : StreamStep(s)

Spec == Init /\ [][Next]_vars

\* The event loop runs every ready task and the network delivers what it does
\* not lose; nobody forces a user to answer, to reset or to close a page.
Fairness ==
    /\ \A c \in Calls : WF_vars(CallStep(c))
    /\ \A w \in Sockets : WF_vars(SocketStep(w))
    /\ \A r \in Resets : WF_vars(ResetStep(r))
    /\ \A s \in Streams : WF_vars(StreamStep(s))

UserFairness ==
    \A w \in Sockets :
        WF_vars(\E l \in Nodes, answer \in {"yes", "no"} : SocketReply(w, l, answer))

FairSpec == Spec /\ Fairness /\ UserFairness

\* The use the GUI is meant for: a user starts a call or a reset only when none
\* is under way anywhere, and asks another node than the own one to follow.
\* Everything else still interleaves.
Begun == <<{c \in Calls : call[c].collect # "idle"}, {r \in Resets : reset[r].pc # "idle"}>>

Quiet ==
    /\ \A c \in Calls : call[c].collect \in {"idle", "done"}
    /\ \A r \in Resets : reset[r].pc \in {"idle", "done"} /\ reset[r].note \in {"none", "done"}

NobodyAsksItself == \A c \in Calls : call[c].collect # "idle" => call[c].leader # call[c].target

OrderlyNext == Next /\ (Begun' # Begun => Quiet) /\ NobodyAsksItself'

OrderlySpec == Init /\ [][OrderlyNext]_vars

FairOrderlySpec == OrderlySpec /\ Fairness /\ UserFairness

-----------------------------------------------------------------------------
(* Properties that hold of every interleaving. *)

\* The handlers of follow_requested that have set following_requested on node n
\* and have not returned.
Pending(n) ==
    {c \in Calls : call[c].target = n /\ call[c].follow \in {"spawned", "waiting", "woken"}}

\* A request that a node has open is put to its user: a page has named its leader,
\* or the event that makes a page do so is still up, although every page's task clears
\* it, also that of a page which has closed.  The exception is a page whose send had
\* to wait: it clears the event of a request that has come meanwhile.
RequestIsAsked ==
    \A n \in Nodes :
        state[n].role = "INDEPENDENT" /\ state[n].following_requested /\ ~ask_event[n] =>
            \E w \in Sockets :
                /\ socket[w].node = n
                /\ state[n].leaders_address \in socket[w].questions \/ w \in SlowSockets

\* A node follows only if its user has said yes since the last reset of the
\* node: a stale answer or event of an earlier session is never enough.
FollowsOnlyAfterYes ==
    \A n \in Nodes : state[n].role = "FOLLOWER" => consent[n] # {}

\* A leader's follower has accepted to follow this very leader, in a call whose
\* answer the leader has processed: a timeout, a refusal or a reset in between
\* never makes a leader.
LeadsOnlyAccepted ==
    \A n \in Nodes : state[n].role = "LEADER" =>
        \E c \in Calls : /\ call[c].leader = n
                         /\ call[c].target = state[n].followers_address
                         /\ call[c].accepted
                         /\ call[c].collect = "done"

\* An independent node has nothing left of an earlier session: no follower, and
\* a leader's name or an open question only for a request still being handled.
IndependentIsClean ==
    \A n \in Nodes : state[n].role = "INDEPENDENT" =>
        /\ state[n].followers_address = NoNode
        /\ state[n].leaders_address # NoNode \/ state[n].following_requested => Pending(n) # {}

\* The question put to a user names a leader: following_requested is never set
\* without leaders_name.
QuestionNamesLeader ==
    \A n \in Nodes : state[n].following_requested => state[n].leaders_address \in Nodes

\* What makes the properties above inductive: a call, socket, reset or stream that
\* has begun names its nodes, ...
Addressed ==
    /\ \A c \in Calls : call[c].follow # "none" =>
           call[c].leader \in Nodes /\ call[c].target \in Nodes
    /\ \A w \in Sockets : socket[w].conn # "idle" => socket[w].node \in Nodes
    /\ \A w \in Sockets : socket[w].ask # "none" => socket[w].node \in Nodes
    /\ \A r \in Resets : reset[r].pc # "idle" => reset[r].node \in Nodes
    /\ \A r \in Resets : reset[r].note # "none" => reset[r].peer \in Nodes
    /\ \A s \in Streams : stream[s].pc # "idle" => stream[s].node \in Nodes

\* ... only then, and only a slow page waits for its send, ...
PagesKnown ==
    \A w \in Sockets : /\ socket[w].conn = "idle" => socket[w].node = NoNode
                       /\ socket[w].ask = "sending" => w \in SlowSockets

\* ... only an answered call is accepted or done, and none is handled before it is made ...
CallsInOrder ==
    \A c \in Calls :
        /\ call[c].accepted \/ call[c].collect = "done" => call[c].follow = "answered"
        /\ call[c].collect = "idle" <=> call[c].follow = "none"

\* ... and a node that holds a yes has a user who said it.
YesIsMeant ==
    \A n \in Nodes : state[n].user_response = "yes" => consent[n] # {}

IInv ==
    /\ TypeOK
    /\ Addressed
    /\ CallsInOrder
    /\ YesIsMeant
    /\ RequestIsAsked
    /\ PagesKnown
    /\ FollowsOnlyAfterYes
    /\ LeadsOnlyAccepted
    /\ IndependentIsClean
    /\ QuestionNamesLeader

-----------------------------------------------------------------------------
(* Properties of the orderly use; each is broken by some interleaving of the   *)
(* unrestricted one.                                                           *)

\* The user of a follower has agreed to follow the leader it follows.
FollowsOnlyWithConsent ==
    \A n \in Nodes : state[n].role = "FOLLOWER" => state[n].leaders_address \in consent[n]

\* When no call and no reset is under way the two ends of a session agree: a
\* follower's leader leads it or has announced its reset; a leader's follower
\* follows it or has announced its reset.
PeersAgree ==
    Quiet => \A n \in Nodes :
        LET l == state[n].leaders_address
            f == state[n].followers_address
        IN  /\ state[n].role = "FOLLOWER" =>
                  \/ l \in notified[n]
                  \/ l \in Nodes /\ state[l].role = "LEADER" /\ state[l].followers_address = n
            /\ state[n].role = "LEADER" =>
                  \/ f \in notified[n]
                  \/ state[f].role = "FOLLOWER" /\ state[f].leaders_address = n

\* A node leaves a session only after it has announced that to its peer.
ResetNotifiesPeer ==
    [][\A n \in Nodes :
         state[n].role # "INDEPENDENT" /\ state'[n].role = "INDEPENDENT" =>
             \E p \in Nodes :
                 /\ n \in notified[p]
                 /\ p = IF state[n].role = "LEADER" THEN state[n].followers_address
                                                   ELSE state[n].leaders_address]_vars

\* Two nodes never believe they lead the same follower.
AtMostOneLeader ==
    \A l1, l2 \in Nodes :
        /\ state[l1].role = "LEADER" /\ state[l2].role = "LEADER"
        /\ state[l1].followers_address = state[l2].followers_address
        => l1 = l2

-----------------------------------------------------------------------------
(* Liveness *)

\* Every request that is made is answered, once the users answer their
\* questions: no handler waits for a question that was never put.
EveryRequestIsAnswered ==
    \A c \in Calls : call[c].collect = "posted" ~> call[c].collect \in {"done", "failed"}

=============================================================================
