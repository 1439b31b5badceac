------------------------- MODULE CoordinationProofs -------------------------
(***************************************************************************)
(* Safety of the coordination handshake for any number of nodes, calls,    *)
(* sockets, resets and streams: first for every interleaving, then for the *)
(* use the GUI is meant for, a call or a reset at a time.                  *)
(***************************************************************************)
EXTENDS Coordination, TLAPS

\* The wake-ups touch nothing but the place where a task waits.
LEMMA FollowWoken ==
  ASSUME TypeOK, NEW n, NEW new, new = FollowWaitersWoken(n)
  PROVE  /\ new \in [Calls -> Call]
         /\ \A c \in Calls :
              /\ new[c].leader = call[c].leader /\ new[c].target = call[c].target
              /\ new[c].collect = call[c].collect /\ new[c].accepted = call[c].accepted
              /\ new[c].follow = IF call[c].target = n /\ call[c].follow = "waiting"
                                   THEN "woken" ELSE call[c].follow
<1>1. ASSUME NEW c \in Calls
      PROVE  /\ new[c] \in Call
             /\ new[c].leader = call[c].leader /\ new[c].target = call[c].target
             /\ new[c].collect = call[c].collect /\ new[c].accepted = call[c].accepted
             /\ new[c].follow = IF call[c].target = n /\ call[c].follow = "waiting"
                                  THEN "woken" ELSE call[c].follow
  <2>1. call[c] \in Call
    BY DEF TypeOK
  <2>2. new[c] = IF call[c].target = n /\ call[c].follow = "waiting"
                   THEN [call[c] EXCEPT !.follow = "woken"] ELSE call[c]
    BY DEF FollowWaitersWoken
  <2> QED BY <2>1, <2>2 DEF Call
<1> QED BY <1>1 DEF FollowWaitersWoken

LEMMA AskWoken ==
  ASSUME TypeOK, NEW n, NEW new, new = AskWaitersWoken(n)
  PROVE  /\ new \in [Sockets -> Socket]
         /\ \A w \in Sockets :
              /\ new[w].node = socket[w].node /\ new[w].conn = socket[w].conn
              /\ new[w].questions = socket[w].questions
              /\ new[w].ask = IF socket[w].node = n /\ socket[w].ask = "waiting"
                                THEN "woken" ELSE socket[w].ask
<1>1. ASSUME NEW w \in Sockets
      PROVE  /\ new[w] \in Socket
             /\ new[w].node = socket[w].node /\ new[w].conn = socket[w].conn
             /\ new[w].questions = socket[w].questions
             /\ new[w].ask = IF socket[w].node = n /\ socket[w].ask = "waiting"
                               THEN "woken" ELSE socket[w].ask
  <2>1. socket[w] \in Socket
    BY DEF TypeOK
  <2>2. new[w] = IF socket[w].node = n /\ socket[w].ask = "waiting"
                   THEN [socket[w] EXCEPT !.ask = "woken"] ELSE socket[w]
    BY DEF AskWaitersWoken
  <2> QED BY <2>1, <2>2 DEF Socket
<1> QED BY <1>1 DEF AskWaitersWoken

LEMMA StreamWoken ==
  ASSUME TypeOK, NEW n, NEW new, new = StreamWaitersWoken(n)
  PROVE  /\ new \in [Streams -> Stream]
         /\ \A s \in Streams :
              /\ new[s].node = stream[s].node
              /\ new[s].pc = IF stream[s].node = n /\ stream[s].pc = "waiting"
                               THEN "woken" ELSE stream[s].pc
<1>1. ASSUME NEW s \in Streams
      PROVE  /\ new[s] \in Stream
             /\ new[s].node = stream[s].node
             /\ new[s].pc = IF stream[s].node = n /\ stream[s].pc = "waiting"
                              THEN "woken" ELSE stream[s].pc
  <2>1. stream[s] \in Stream
    BY DEF TypeOK
  <2>2. new[s] = IF stream[s].node = n /\ stream[s].pc = "waiting"
                   THEN [stream[s] EXCEPT !.pc = "woken"] ELSE stream[s]
    BY DEF StreamWaitersWoken
  <2> QED BY <2>1, <2>2 DEF Stream
<1> QED BY <1>1 DEF StreamWaitersWoken

-----------------------------------------------------------------------------
(* Steps that leave the nodes' state alone. *)

\* The invariants that a step of the websocket, of the notification or of the
\* event stream cannot disturb.
Sessions == /\ CallsInOrder
            /\ YesIsMeant
            /\ FollowsOnlyAfterYes
            /\ LeadsOnlyAccepted
            /\ IndependentIsClean
            /\ QuestionNamesLeader

LEMMA SessionsUntouched ==
  ASSUME Sessions, UNCHANGED <<state, consent, call>>
  PROVE  Sessions'
BY DEF Sessions, CallsInOrder, YesIsMeant, FollowsOnlyAfterYes, LeadsOnlyAccepted,
       IndependentIsClean, QuestionNamesLeader, Pending

\* A call moves on; no handler of the target begins or ends by that.
LEMMA CallMoves ==
  ASSUME IInv, NEW c \in Calls,
         UNCHANGED <<state, ask_event, reply_event, cancel_event, socket, reset, stream,
                     consent, notified>>,
         call' \in [Calls -> Call],
         \A x \in Calls \ {c} : call'[x] = call[x],
         call[c].collect # "done",
         call'[c].leader \in Nodes, call'[c].target \in Nodes,
         call'[c].collect # "idle", call'[c].follow # "none",
         call'[c].accepted \/ call'[c].collect = "done" => call'[c].follow = "answered",
         call[c].follow \in {"spawned", "waiting", "woken"} =>
           /\ call'[c].follow \in {"spawned", "waiting", "woken"}
           /\ call'[c].target = call[c].target
  PROVE  IInv'
<1> USE DEF IInv
<1>1. TypeOK'
  BY DEF TypeOK
<1>2. Addressed' /\ CallsInOrder'
  BY DEF Addressed, CallsInOrder
<1>3. RequestIsAsked' /\ PagesKnown'
  BY DEF RequestIsAsked, PagesKnown
<1>4. YesIsMeant' /\ FollowsOnlyAfterYes' /\ QuestionNamesLeader'
  BY DEF YesIsMeant, FollowsOnlyAfterYes, QuestionNamesLeader
<1>5. LeadsOnlyAccepted'
  BY DEF LeadsOnlyAccepted
<1>6. \A n \in Nodes : Pending(n) # {} => Pending(n)' # {}
  BY DEF Pending
<1>7. IndependentIsClean'
  BY <1>6 DEF IndependentIsClean
<1> QED BY <1>1, <1>2, <1>3, <1>4, <1>5, <1>7

LEMMA CollectFollowerPreserves ==
  ASSUME IInv, NEW c \in Calls, NEW l \in Collectors, NEW f \in Nodes,
         CollectFollower(c, l, f)
  PROVE  IInv'
<1>1. l \in Nodes
  BY CoordinationAssumption
<1>2. call[c] \in Call /\ call[c].follow = "none"
  BY DEF IInv, TypeOK, CallsInOrder, CollectFollower
<1>3. /\ call' \in [Calls -> Call]
      /\ \A x \in Calls \ {c} : call'[x] = call[x]
      /\ call'[c] = [leader |-> l, target |-> f, collect |-> "posted",
                     follow |-> "sent", accepted |-> FALSE]
  BY <1>1 DEF IInv, TypeOK, Call, Address, CollectFollower
<1>4. call[c].collect # "done"
  BY DEF CollectFollower
<1> QED BY <1>1, <1>2, <1>3, <1>4, CallMoves DEF CollectFollower

LEMMA CollectFailsPreserves ==
  ASSUME IInv, NEW c \in Calls, CollectFails(c)
  PROVE  IInv'
<1>1. call[c] \in Call /\ call[c].collect = "posted"
  BY DEF IInv, TypeOK, CollectFails
<1>2. /\ call' \in [Calls -> Call]
      /\ \A x \in Calls \ {c} : call'[x] = call[x]
      /\ call'[c].leader = call[c].leader /\ call'[c].target = call[c].target
      /\ call'[c].accepted = call[c].accepted /\ call'[c].follow = call[c].follow
      /\ call'[c].collect = "failed"
  BY <1>1 DEF IInv, TypeOK, Call, CollectFails
<1>3. /\ call[c].leader \in Nodes /\ call[c].target \in Nodes
      /\ call[c].follow # "none"
      /\ call[c].accepted => call[c].follow = "answered"
  BY <1>1 DEF IInv, Addressed, CallsInOrder
<1> QED BY <1>1, <1>2, <1>3, CallMoves DEF CollectFails

LEMMA FollowWaitsPreserves ==
  ASSUME IInv, NEW c \in Calls, FollowWaits(c)
  PROVE  IInv'
<1>1. call[c] \in Call /\ call[c].follow = "spawned"
  BY DEF IInv, TypeOK, FollowWaits
<1>2. /\ call' \in [Calls -> Call]
      /\ \A x \in Calls \ {c} : call'[x] = call[x]
      /\ call'[c].leader = call[c].leader /\ call'[c].target = call[c].target
      /\ call'[c].accepted = call[c].accepted /\ call'[c].collect = call[c].collect
      /\ call'[c].follow = IF reply_event[call[c].target] \/ cancel_event[call[c].target]
                             THEN "woken" ELSE "waiting"
  BY <1>1 DEF IInv, TypeOK, Call, FollowWaits
<1>3. /\ call[c].leader \in Nodes /\ call[c].target \in Nodes
      /\ ~call[c].accepted /\ call[c].collect \notin {"done", "idle"}
  BY <1>1 DEF IInv, Addressed, CallsInOrder
<1>4. call'[c].follow \in {"waiting", "woken"}
  BY <1>2
<1>5. UNCHANGED <<state, ask_event, reply_event, cancel_event, socket, reset, stream,
                  consent, notified>>
  BY DEF FollowWaits
<1> HIDE DEF FollowWaits
<1> QED BY <1>1, <1>2, <1>3, <1>4, <1>5, CallMoves

-----------------------------------------------------------------------------
(* Steps of the websocket's ask task, of notifications and of event streams. *)

LEMMA AskStepPreserves ==
  ASSUME IInv, NEW w \in Sockets, AskWaits(w) \/ AskUser(w) \/ QuestionSent(w)
  PROVE  IInv'
<1> DEFINE n == socket[w].node
<1> USE DEF IInv
<1>1. socket[w] \in Socket /\ n \in Nodes /\ socket[w].ask # "none"
  BY DEF TypeOK, Addressed, AskWaits, AskUser, QuestionSent
<1>2. state[n].following_requested => state[n].leaders_address \in Nodes
  BY <1>1 DEF QuestionNamesLeader
<1>3. UNCHANGED <<state, reply_event, cancel_event, call, reset, stream, consent, notified>>
  BY DEF AskWaits, AskUser, QuestionSent
<1>4. PICK a \in {"waiting", "sending", "ended"}, q \in SUBSET Nodes :
        /\ socket' = [socket EXCEPT ![w] = [socket[w] EXCEPT !.ask = a, !.questions = q]]
        /\ socket[w].questions \subseteq q
        /\ a = "sending" => w \in SlowSockets
        /\ \/ /\ ask_event' = [ask_event EXCEPT ![n] = FALSE]
              /\ \/ ~state[n].following_requested
                 \/ state[n].leaders_address \in q
                 \/ w \in SlowSockets
           \/ ask_event' = ask_event
  <2>1. /\ socket[w].questions \in SUBSET Nodes
        /\ \A a : [socket EXCEPT ![w].ask = a] =
              [socket EXCEPT ![w] = [socket[w] EXCEPT !.ask = a, !.questions = socket[w].questions]]
    BY <1>1 DEF Socket
  <2>2. CASE AskWaits(w)
    BY <2>1, <2>2 DEF AskWaits
  <2>3. CASE AskUser(w)
    <3>1. CASE ~state[n].following_requested \/ socket[w].conn = "gone"
      BY <2>1, <2>3, <3>1 DEF AskUser, AskEnds
    <3>2. CASE state[n].following_requested /\ socket[w].conn # "gone"
      <4> DEFINE q == socket[w].questions \cup {state[n].leaders_address}
      <4>1. /\ q \in SUBSET Nodes
            /\ socket[w].questions \subseteq q
            /\ state[n].leaders_address \in q
        BY <1>2, <2>1, <3>2
      <4>2. \/ /\ socket' = [socket EXCEPT ![w] = [socket[w] EXCEPT !.ask = "waiting", !.questions = q]]
               /\ ask_event' = [ask_event EXCEPT ![n] = FALSE]
            \/ /\ socket' = [socket EXCEPT ![w] = [socket[w] EXCEPT !.ask = "sending", !.questions = q]]
               /\ ask_event' = ask_event
               /\ w \in SlowSockets
        BY <1>1, <2>3, <3>2 DEF AskUser, Socket
      <4> HIDE DEF q
      <4> QED BY <4>1, <4>2
    <3> QED BY <3>1, <3>2
  <2>4. CASE QuestionSent(w)
    <3>1. w \in SlowSockets
      BY <2>4 DEF QuestionSent, PagesKnown
    <3> QED BY <2>1, <2>4, <3>1 DEF QuestionSent, AskEnds
  <2> QED BY <2>2, <2>3, <2>4
<1>5. /\ socket' \in [Sockets -> Socket]
      /\ \A v \in Sockets \ {w} : socket'[v] = socket[v]
      /\ socket'[w].node = n /\ socket'[w].conn = socket[w].conn /\ socket'[w].ask = a
      /\ socket'[w].questions = q
  <2> DEFINE s == [socket[w] EXCEPT !.ask = a, !.questions = q]
  <2>1. s \in Socket /\ s.node = n /\ s.conn = socket[w].conn /\ s.ask = a /\ s.questions = q
    BY <1>1 DEF Socket
  <2> QED BY <1>4, <2>1 DEF TypeOK
<1>6. TypeOK'
  <2>1. ask_event' \in [Nodes -> BOOLEAN]
    BY <1>4 DEF TypeOK
  <2> QED BY <1>3, <1>5, <2>1 DEF TypeOK
<1>7. Addressed' /\ PagesKnown'
  BY <1>1, <1>3, <1>4, <1>5 DEF Addressed, PagesKnown
<1>8. RequestIsAsked'
  <2>1. \A v \in Sockets : /\ socket'[v].node = socket[v].node
                           /\ socket[v].questions \subseteq socket'[v].questions
    BY <1>4, <1>5
  <2>2. \A m \in Nodes : \/ ask_event'[m] = ask_event[m]
                         \/ /\ m = n
                            /\ \/ ~state[n].following_requested
                               \/ state[n].leaders_address \in q
                               \/ w \in SlowSockets
    BY <1>4 DEF TypeOK
  <2> QED BY <1>3, <1>5, <2>1, <2>2 DEF RequestIsAsked
<1> QED BY <1>3, <1>6, <1>7, <1>8, SessionsUntouched DEF Sessions

LEMMA StreamStepPreserves ==
  ASSUME IInv, NEW s \in Streams,
         \/ \E n \in Nodes : StreamOpen(s, n)
         \/ StreamStep(s)
         \/ StreamClose(s)
  PROVE  IInv'
<1> USE DEF IInv
<1>1. stream[s] \in Stream
  BY DEF TypeOK
<1>2. UNCHANGED <<state, ask_event, reply_event, call, socket, reset, consent, notified>>
  BY DEF StreamUnchanged, StreamOpen, StreamStep, StreamWaits, StreamTimeout, StreamReports,
         StreamClears, StreamClose
<1>3. PICK n \in Nodes, p \in {"waiting", "reporting", "sleeping", "closed"} :
        /\ stream' \in [Streams -> Stream]
        /\ \A t \in Streams \ {s} : stream'[t] = stream[t]
        /\ stream'[s].node = n /\ stream'[s].pc = p
  <2>1. CASE \E n \in Nodes : StreamOpen(s, n)
    BY <2>1 DEF StreamOpen, TypeOK, Stream, Address
  <2>2. ASSUME NEW p \in {"waiting", "reporting", "sleeping", "closed"}
        PROVE  LET t == [stream[s] EXCEPT !.pc = p]
               IN  t \in Stream /\ t.node = stream[s].node /\ t.pc = p
    BY <1>1 DEF Stream
  <2>3. CASE StreamStep(s) \/ StreamClose(s)
    <3>1. stream[s].pc # "idle" /\ stream[s].node \in Nodes
      BY <1>1, <2>3 DEF StreamStep, StreamWaits, StreamTimeout, StreamReports, StreamClears,
                        StreamClose, Addressed
    <3>2. PICK p \in {"waiting", "reporting", "sleeping", "closed"} :
            stream' = [stream EXCEPT ![s].pc = p]
      BY <2>3 DEF StreamStep, StreamWaits, StreamTimeout, StreamReports, StreamClears, StreamClose
    <3> QED BY <2>2, <3>1, <3>2 DEF TypeOK
  <2> QED BY <2>1, <2>3
<1>4. cancel_event' \in [Nodes -> BOOLEAN]
  BY DEF TypeOK, StreamOpen, StreamStep, StreamWaits, StreamTimeout, StreamReports,
         StreamClears, StreamClose
<1>5. TypeOK'
  BY <1>2, <1>3, <1>4 DEF TypeOK
<1>6. Addressed'
  BY <1>2, <1>3 DEF Addressed
<1>7. RequestIsAsked' /\ PagesKnown'
  BY <1>2 DEF RequestIsAsked, PagesKnown
<1> QED BY <1>2, <1>5, <1>6, <1>7, SessionsUntouched DEF Sessions

-----------------------------------------------------------------------------
(* Resets *)

\* A notification wakes every task that waits for a cancellation; the handlers of
\* the follow requests remain pending.
LEMMA ProtocolCancelledPreserves ==
  ASSUME IInv, NEW r \in Resets, ProtocolCancelled(r)
  PROVE  IInv'
<1> DEFINE n == reset[r].peer
<1> USE DEF IInv
<1>1. reset[r] \in Reset /\ n \in Nodes /\ reset[r].note = "sent"
  BY DEF TypeOK, Addressed, ProtocolCancelled
<1>2. /\ cancel_event' = [cancel_event EXCEPT ![n] = TRUE]
      /\ call' = FollowWaitersWoken(n)
      /\ stream' = StreamWaitersWoken(n)
      /\ UNCHANGED <<state, ask_event, reply_event, socket, consent, notified>>
  BY DEF ProtocolCancelled
<1>3. /\ reset' \in [Resets -> Reset]
      /\ \A x \in Resets : /\ reset'[x].pc = reset[x].pc /\ reset'[x].node = reset[x].node
                           /\ reset'[x].peer = reset[x].peer
                           /\ reset'[x].note # "none" => reset[x].note # "none"
  BY <1>1 DEF ProtocolCancelled, TypeOK, Reset
<1>4. TypeOK'
  BY <1>2, <1>3, FollowWoken, StreamWoken DEF TypeOK
<1>5. Addressed'
  BY <1>2, <1>3, FollowWoken, StreamWoken DEF Addressed
<1>6. RequestIsAsked' /\ PagesKnown'
  BY <1>2 DEF RequestIsAsked, PagesKnown
<1>7. CallsInOrder' /\ LeadsOnlyAccepted'
  BY <1>2, FollowWoken DEF CallsInOrder, LeadsOnlyAccepted
<1>8. \A m \in Nodes : Pending(m)' = Pending(m)
  BY <1>2, FollowWoken DEF Pending
<1>9. IndependentIsClean'
  BY <1>2, <1>8 DEF IndependentIsClean
<1>10. YesIsMeant' /\ FollowsOnlyAfterYes' /\ QuestionNamesLeader'
  BY <1>2 DEF YesIsMeant, FollowsOnlyAfterYes, QuestionNamesLeader
<1> QED BY <1>4, <1>5, <1>6, <1>7, <1>9, <1>10

LEMMA ProtocolCancelledClearsPreserves ==
  ASSUME IInv, NEW r \in Resets, ProtocolCancelledClears(r)
  PROVE  IInv'
<1> USE DEF IInv
<1>1. reset[r] \in Reset /\ reset[r].note = "sleeping"
  BY DEF TypeOK, ProtocolCancelledClears
<1>2. UNCHANGED <<state, ask_event, reply_event, call, socket, stream, consent, notified>>
  BY DEF ProtocolCancelledClears
<1>3. /\ reset' \in [Resets -> Reset]
      /\ \A x \in Resets : /\ reset'[x].pc = reset[x].pc /\ reset'[x].node = reset[x].node
                           /\ reset'[x].peer = reset[x].peer
                           /\ reset'[x].note # "none" => reset[x].note # "none"
  BY <1>1 DEF ProtocolCancelledClears, TypeOK, Reset
<1>4. cancel_event' \in [Nodes -> BOOLEAN]
  BY DEF ProtocolCancelledClears, TypeOK
<1>5. TypeOK'
  BY <1>2, <1>3, <1>4 DEF TypeOK
<1>6. Addressed'
  BY <1>2, <1>3 DEF Addressed
<1>7. RequestIsAsked' /\ PagesKnown'
  BY <1>2 DEF RequestIsAsked, PagesKnown
<1> QED BY <1>2, <1>5, <1>6, <1>7, SessionsUntouched DEF Sessions

\* What the synchronous part of reset_coordination_state does to one node.
LEMMA LocalResetPreserves ==
  ASSUME IInv, NEW n \in Nodes, LocalReset(n),
         UNCHANGED <<ask_event, reply_event, socket>>,
         reset' \in [Resets -> Reset], notified' = notified,
         \A x \in Resets : /\ reset'[x].pc # "idle" => reset'[x].node \in Nodes
                           /\ reset'[x].note # "none" => reset'[x].peer \in Nodes
  PROVE  IInv'
<1> USE DEF IInv
<1>1. /\ cancel_event' = [cancel_event EXCEPT ![n] = FALSE]
      /\ consent' = [consent EXCEPT ![n] = {}]
      /\ call' = FollowWaitersWoken(n)
      /\ stream' = StreamWaitersWoken(n)
  BY DEF LocalReset
<1>2. /\ state' \in [Nodes -> NodeState]
      /\ \A m \in Nodes \ {n} : state'[m] = state[m]
      /\ state'[n].role = "INDEPENDENT" /\ state'[n].followers_address = NoNode
      /\ state'[n].leaders_address = NoNode /\ state'[n].following_requested = FALSE
      /\ state'[n].user_response = "none"
  <2> DEFINE s == [InitialNodeState EXCEPT !.listening = state[n].listening]
  <2>1. state[n].listening \in BOOLEAN
    BY DEF TypeOK, NodeState
  <2>2. /\ s \in NodeState /\ s.role = "INDEPENDENT" /\ s.followers_address = NoNode
        /\ s.leaders_address = NoNode /\ s.following_requested = FALSE
        /\ s.user_response = "none"
    BY <2>1 DEF InitialNodeState, NodeState, Roles, Responses, Address
  <2> HIDE DEF s
  <2>3. state' = [state EXCEPT ![n] = s]
    BY DEF LocalReset, s
  <2> QED BY <2>2, <2>3 DEF TypeOK
<1>3. TypeOK'
  BY <1>1, <1>2, FollowWoken, StreamWoken DEF TypeOK
<1>4. Addressed'
  BY <1>1, FollowWoken, StreamWoken DEF Addressed
<1>5. RequestIsAsked' /\ PagesKnown'
  BY <1>2 DEF RequestIsAsked, PagesKnown
<1>6. CallsInOrder'
  BY <1>1, FollowWoken DEF CallsInOrder
<1>7. YesIsMeant' /\ FollowsOnlyAfterYes' /\ QuestionNamesLeader'
  BY <1>1, <1>2 DEF YesIsMeant, FollowsOnlyAfterYes, QuestionNamesLeader, TypeOK
<1>8. LeadsOnlyAccepted'
  BY <1>1, <1>2, FollowWoken DEF LeadsOnlyAccepted
<1>9. \A m \in Nodes : Pending(m)' = Pending(m)
  BY <1>1, FollowWoken DEF Pending
<1>10. IndependentIsClean'
  BY <1>2, <1>9 DEF IndependentIsClean
<1> QED BY <1>3, <1>4, <1>5, <1>6, <1>7, <1>8, <1>10

LEMMA ResetStartPreserves ==
  ASSUME IInv, NEW r \in Resets, NEW n \in Nodes, ResetStart(r, n)
  PROVE  IInv'
<1> DEFINE peer == Peer(n)
<1>1. peer \in Address
  BY DEF IInv, TypeOK, NodeState, Address, Peer
<1>2. CASE peer = NoNode
  <2>1. /\ reset' = [reset EXCEPT ![r] = [node |-> n, peer |-> NoNode,
                                          pc |-> "done", note |-> "none"]]
        /\ LocalReset(n) /\ notified' = notified
        /\ UNCHANGED <<ask_event, reply_event, socket>>
    BY <1>2 DEF ResetStart
  <2>2. /\ reset' \in [Resets -> Reset]
        /\ \A x \in Resets : /\ reset'[x].pc # "idle" => reset'[x].node \in Nodes
                             /\ reset'[x].note # "none" => reset'[x].peer \in Nodes
    BY <2>1 DEF IInv, TypeOK, Addressed, Reset, Address
  <2> QED BY <2>1, <2>2, LocalResetPreserves
<1>3. CASE peer # NoNode
  <2>1. /\ reset' = [reset EXCEPT ![r] = [node |-> n, peer |-> peer,
                                          pc |-> "notifying", note |-> "sent"]]
        /\ notified' = [notified EXCEPT ![peer] = notified[peer] \cup {n}]
        /\ UNCHANGED <<state, ask_event, reply_event, cancel_event, call, socket, stream, consent>>
    BY <1>3 DEF ResetStart
  <2>2. peer \in Nodes
    BY <1>1, <1>3 DEF Address
  <2> HIDE DEF peer
  <2>3. TypeOK'
    BY <2>1, <2>2 DEF IInv, TypeOK, Reset, Address
  <2>4. Addressed'
    BY <2>1, <2>2 DEF IInv, TypeOK, Addressed
  <2>5. RequestIsAsked' /\ PagesKnown'
    BY <2>1 DEF IInv, RequestIsAsked, PagesKnown
  <2> QED BY <2>1, <2>3, <2>4, <2>5, SessionsUntouched DEF IInv, Sessions
<1> QED BY <1>2, <1>3

LEMMA ResetFinishPreserves ==
  ASSUME IInv, NEW r \in Resets, ResetFinish(r)
  PROVE  IInv'
<1>1. reset[r] \in Reset /\ reset[r].pc # "idle" /\ reset[r].node \in Nodes
  BY DEF IInv, TypeOK, Addressed, ResetFinish
<1>2. /\ reset' \in [Resets -> Reset]
      /\ \A x \in Resets : /\ reset'[x].pc # "idle" => reset'[x].node \in Nodes
                           /\ reset'[x].note # "none" => reset'[x].peer \in Nodes
  BY <1>1 DEF IInv, TypeOK, Addressed, ResetFinish, Reset
<1> QED BY <1>1, <1>2, LocalResetPreserves DEF ResetFinish

-----------------------------------------------------------------------------
(* The handlers that write the state of a node. *)

LEMMA SocketOpenClosePreserves ==
  ASSUME IInv, NEW w \in Sockets,
         (\E n \in Nodes : SocketOpen(w, n)) \/ SocketClose(w)
  PROVE  IInv'
<1> USE DEF IInv
<1>1. UNCHANGED <<ask_event, reply_event, cancel_event, call, reset, stream, consent, notified>>
  BY DEF SocketOpen, SocketClose
<1>2. /\ socket' \in [Sockets -> Socket]
      /\ \A v \in Sockets \ {w} : socket'[v] = socket[v]
      /\ socket'[w].node \in Nodes
      /\ socket'[w].conn # "idle" /\ (socket'[w].ask = "sending" => w \in SlowSockets)
      /\ \/ socket[w].node = NoNode
         \/ socket'[w].node = socket[w].node /\ socket'[w].questions = socket[w].questions
  <2>1. CASE \E n \in Nodes : SocketOpen(w, n)
    BY <2>1 DEF SocketOpen, TypeOK, Socket, Address, PagesKnown
  <2>2. CASE SocketClose(w)
    <3> DEFINE s == [socket[w] EXCEPT !.conn = "gone"]
    <3>1. /\ socket[w] \in Socket /\ socket[w].node \in Nodes
          /\ socket[w].ask = "sending" => w \in SlowSockets
      BY <2>2 DEF SocketClose, TypeOK, Addressed, PagesKnown
    <3>2. /\ s \in Socket /\ s.node = socket[w].node /\ s.ask = socket[w].ask
          /\ s.conn = "gone" /\ s.questions = socket[w].questions
      BY <3>1 DEF Socket
    <3>3. socket' = [socket EXCEPT ![w] = s]
      BY <2>2 DEF SocketClose
    <3> HIDE DEF s
    <3> QED BY <3>1, <3>2, <3>3 DEF TypeOK
  <2> QED BY <2>1, <2>2
<1>3. PICK n \in Nodes, b \in BOOLEAN : state' = [state EXCEPT ![n].listening = b]
  BY DEF SocketOpen, SocketClose, Addressed
<1>4. /\ state' \in [Nodes -> NodeState]
      /\ \A m \in Nodes : /\ state'[m].role = state[m].role
                          /\ state'[m].followers_address = state[m].followers_address
                          /\ state'[m].leaders_address = state[m].leaders_address
                          /\ state'[m].following_requested = state[m].following_requested
                          /\ state'[m].user_response = state[m].user_response
  BY <1>3 DEF TypeOK, NodeState
<1>5. TypeOK'
  BY <1>1, <1>2, <1>4 DEF TypeOK
<1>6. Addressed'
  BY <1>1, <1>2 DEF Addressed
<1>7. RequestIsAsked' /\ PagesKnown'
  BY <1>1, <1>2, <1>4, CoordinationAssumption DEF RequestIsAsked, PagesKnown
<1>8. CallsInOrder'
  BY <1>1 DEF CallsInOrder
<1>9. YesIsMeant' /\ FollowsOnlyAfterYes' /\ QuestionNamesLeader'
  BY <1>1, <1>4 DEF YesIsMeant, FollowsOnlyAfterYes, QuestionNamesLeader
<1>10. LeadsOnlyAccepted' /\ IndependentIsClean'
  BY <1>1, <1>4 DEF LeadsOnlyAccepted, IndependentIsClean, Pending
<1> QED BY <1>5, <1>6, <1>7, <1>8, <1>9, <1>10

\* The only step that records a yes, and it records whose.
LEMMA SocketReplyPreserves ==
  ASSUME IInv, NEW w \in Sockets, NEW l \in Nodes, NEW answer \in {"yes", "no"},
         SocketReply(w, l, answer)
  PROVE  IInv'
<1> DEFINE n == socket[w].node
<1> USE DEF IInv
<1>1. socket[w] \in Socket /\ n \in Nodes /\ state[n] \in NodeState
  BY DEF TypeOK, Addressed, SocketReply
<1>2. /\ reply_event' = [reply_event EXCEPT ![n] = TRUE]
      /\ call' = FollowWaitersWoken(n)
      /\ consent' = [consent EXCEPT ![n] = IF answer = "yes" THEN consent[n] \cup {l} ELSE consent[n]]
      /\ UNCHANGED <<ask_event, cancel_event, reset, stream, notified>>
  BY DEF SocketReply
<1>3. /\ socket' \in [Sockets -> Socket]
      /\ \A v \in Sockets : /\ socket'[v].node = socket[v].node
                            /\ socket'[v].conn = socket[v].conn
                            /\ socket'[v].ask = socket[v].ask
                            /\ v # w => socket'[v].questions = socket[v].questions
  <2> DEFINE s == [socket[w] EXCEPT !.questions = socket[w].questions \ {l}]
  <2>1. s \in Socket /\ s.node = n /\ s.conn = socket[w].conn /\ s.ask = socket[w].ask
    BY <1>1 DEF Socket
  <2>2. socket' = [socket EXCEPT ![w] = s]
    BY DEF SocketReply
  <2> HIDE DEF s
  <2> QED BY <2>1, <2>2 DEF TypeOK
<1>4. /\ state' \in [Nodes -> NodeState]
      /\ \A m \in Nodes \ {n} : state'[m] = state[m]
      /\ state'[n].role = state[n].role
      /\ state'[n].followers_address = state[n].followers_address
      /\ state'[n].leaders_address = state[n].leaders_address
      /\ state'[n].user_response = answer /\ ~state'[n].following_requested
  <2> DEFINE s == [state[n] EXCEPT !.user_response = answer, !.following_requested = FALSE]
  <2>1. /\ s \in NodeState /\ s.role = state[n].role
        /\ s.followers_address = state[n].followers_address
        /\ s.leaders_address = state[n].leaders_address
        /\ s.user_response = answer /\ ~s.following_requested
    BY <1>1 DEF NodeState, Responses
  <2>2. state' = [state EXCEPT ![n] = s]
    BY DEF SocketReply
  <2> HIDE DEF s
  <2> QED BY <1>1, <2>1, <2>2 DEF TypeOK
<1>5. TypeOK'
  BY <1>1, <1>2, <1>3, <1>4, FollowWoken DEF TypeOK
<1>6. Addressed'
  BY <1>2, <1>3, FollowWoken DEF Addressed
<1>7. RequestIsAsked' /\ PagesKnown'
  BY <1>1, <1>2, <1>3, <1>4 DEF RequestIsAsked, PagesKnown
<1>8. CallsInOrder' /\ LeadsOnlyAccepted'
  BY <1>2, <1>4, FollowWoken DEF CallsInOrder, LeadsOnlyAccepted
<1>9. YesIsMeant' /\ FollowsOnlyAfterYes' /\ QuestionNamesLeader'
  BY <1>1, <1>2, <1>4 DEF YesIsMeant, FollowsOnlyAfterYes, QuestionNamesLeader, TypeOK
<1>10. \A m \in Nodes : Pending(m)' = Pending(m)
  BY <1>2, FollowWoken DEF Pending
<1>11. IndependentIsClean'
  BY <1>4, <1>10 DEF IndependentIsClean
<1> QED BY <1>5, <1>6, <1>7, <1>8, <1>9, <1>11

\* The only step that makes a leader.
LEMMA CollectAnsweredPreserves ==
  ASSUME IInv, NEW c \in Calls, CollectAnswered(c)
  PROVE  IInv'
<1> DEFINE l == call[c].leader
<1> USE DEF IInv
<1>1. /\ call[c] \in Call /\ call[c].collect = "posted" /\ call[c].follow = "answered"
      /\ l \in Nodes /\ call[c].target \in Nodes /\ state[l] \in NodeState
  BY DEF TypeOK, Addressed, CollectAnswered
<1>2. /\ call' \in [Calls -> Call]
      /\ \A x \in Calls \ {c} : call'[x] = call[x]
      /\ call'[c].leader = l /\ call'[c].target = call[c].target
      /\ call'[c].accepted = call[c].accepted /\ call'[c].follow = "answered"
      /\ call'[c].collect = "done"
  BY <1>1 DEF TypeOK, Call, CollectAnswered
<1>3. UNCHANGED <<ask_event, reply_event, cancel_event, socket, reset, stream, consent, notified>>
  BY DEF CollectAnswered
<1>4. CASE ~call[c].accepted
  BY <1>1, <1>2, <1>3, <1>4, CallMoves DEF CollectAnswered
<1>5. CASE call[c].accepted
  <2>1. /\ state' \in [Nodes -> NodeState]
        /\ \A m \in Nodes \ {l} : state'[m] = state[m]
        /\ state'[l].role = "LEADER" /\ state'[l].followers_address = call[c].target
        /\ state'[l].leaders_address = state[l].leaders_address
        /\ state'[l].user_response = state[l].user_response
        /\ state'[l].following_requested = state[l].following_requested
    <3> DEFINE s == [state[l] EXCEPT !.role = "LEADER", !.followers_address = call[c].target]
    <3>1. /\ s \in NodeState /\ s.role = "LEADER" /\ s.followers_address = call[c].target
          /\ s.leaders_address = state[l].leaders_address
          /\ s.user_response = state[l].user_response
          /\ s.following_requested = state[l].following_requested
      BY <1>1 DEF NodeState, Roles, Address
    <3>2. state' = [state EXCEPT ![l] = s]
      BY <1>5 DEF CollectAnswered
    <3> HIDE DEF s
    <3> QED BY <1>1, <3>1, <3>2 DEF TypeOK
  <2>2. TypeOK'
    BY <1>2, <1>3, <2>1 DEF TypeOK
  <2>3. Addressed' /\ CallsInOrder' /\ PagesKnown'
    BY <1>1, <1>2, <1>3 DEF Addressed, CallsInOrder, PagesKnown
  <2>8. RequestIsAsked'
    BY <1>3, <2>1 DEF RequestIsAsked
  <2>4. YesIsMeant' /\ FollowsOnlyAfterYes' /\ QuestionNamesLeader'
    BY <1>3, <2>1 DEF YesIsMeant, FollowsOnlyAfterYes, QuestionNamesLeader
  <2>5. LeadsOnlyAccepted'
    <3>1. SUFFICES ASSUME NEW m \in Nodes, state'[m].role = "LEADER"
                   PROVE  \E x \in Calls : /\ call'[x].leader = m
                                           /\ call'[x].target = state'[m].followers_address
                                           /\ call'[x].accepted
                                           /\ call'[x].collect = "done"
      BY DEF LeadsOnlyAccepted
    <3>2. CASE m = l
      BY <1>2, <1>5, <2>1, <3>2
    <3>3. CASE m # l
      <4>1. PICK x \in Calls : /\ call[x].leader = m
                              /\ call[x].target = state[m].followers_address
                              /\ call[x].accepted
                              /\ call[x].collect = "done"
        BY <2>1, <3>1, <3>3 DEF LeadsOnlyAccepted
      <4>2. x # c
        BY <1>1, <4>1
      <4> QED BY <1>2, <2>1, <3>3, <4>1, <4>2
    <3> QED BY <3>2, <3>3
  <2>6. \A m \in Nodes : Pending(m)' = Pending(m)
    BY <1>1, <1>2 DEF Pending
  <2>7. IndependentIsClean'
    BY <1>1, <2>1, <2>6 DEF IndependentIsClean
  <2> QED BY <2>2, <2>3, <2>4, <2>5, <2>7, <2>8
<1> QED BY <1>4, <1>5

LEMMA FollowRequestedPreserves ==
  ASSUME IInv, NEW c \in Calls, FollowRequested(c)
  PROVE  IInv'
<1> DEFINE n == call[c].target
<1> USE DEF IInv
<1>n. n \in Nodes /\ call[c].leader \in Nodes /\ call[c] \in Call /\ state[n] \in NodeState
  BY DEF TypeOK, Addressed, FollowRequested
<1>1. CASE ~MayBeAsked(n)
  <2>1. /\ call' = [call EXCEPT ![c].follow = "answered"]
        /\ UNCHANGED <<state, ask_event, reply_event, cancel_event, socket, reset, stream,
                       consent, notified>>
    BY <1>1 DEF FollowRequested
  <2>2. /\ call' \in [Calls -> Call]
        /\ \A x \in Calls \ {c} : call'[x] = call[x]
        /\ call'[c].leader = call[c].leader /\ call'[c].target = n
        /\ call'[c].collect = call[c].collect /\ call'[c].accepted = call[c].accepted
        /\ call'[c].follow = "answered" /\ call[c].follow = "sent"
    BY <2>1, <1>n DEF TypeOK, Call, FollowRequested
  <2>3. TypeOK' 
    BY <2>1, <2>2 DEF TypeOK
  <2>4. Addressed' /\ CallsInOrder' /\ RequestIsAsked' /\ PagesKnown'
    BY <2>1, <2>2, <1>n DEF Addressed, CallsInOrder, RequestIsAsked, PagesKnown
  <2>5. YesIsMeant' /\ FollowsOnlyAfterYes' /\ QuestionNamesLeader'
    BY <2>1 DEF YesIsMeant, FollowsOnlyAfterYes, QuestionNamesLeader
  <2>6. LeadsOnlyAccepted' 
    BY <2>1, <2>2 DEF LeadsOnlyAccepted, CallsInOrder
  <2>7. IndependentIsClean' 
    BY <2>1, <2>2 DEF IndependentIsClean, Pending
  <2> QED BY <2>3, <2>4, <2>5, <2>6, <2>7
<1>2. CASE MayBeAsked(n)
  <2>1. /\ call' = [call EXCEPT ![c].follow = "spawned"]
        /\ state' = [state EXCEPT ![n] = [state[n] EXCEPT !.following_requested = TRUE,
                                                       !.leaders_address = call[c].leader]]
        /\ ask_event' = [ask_event EXCEPT ![n] = TRUE]
        /\ socket' = AskWaitersWoken(n)
        /\ UNCHANGED <<reply_event, cancel_event, reset, stream, consent, notified>>
    BY <1>2 DEF FollowRequested
  <2>2. /\ call' \in [Calls -> Call]
        /\ \A x \in Calls \ {c} : call'[x] = call[x]
        /\ call'[c].leader = call[c].leader /\ call'[c].target = n
        /\ call'[c].collect = call[c].collect /\ call'[c].accepted = call[c].accepted
        /\ call'[c].follow = "spawned" /\ call[c].follow = "sent"
    BY <2>1, <1>n DEF TypeOK, Call, FollowRequested
  <2>3. /\ state' \in [Nodes -> NodeState]
        /\ \A m \in Nodes \ {n} : state'[m] = state[m]
        /\ state'[n].role = state[n].role
        /\ state'[n].followers_address = state[n].followers_address
        /\ state'[n].user_response = state[n].user_response
        /\ state'[n].leaders_address \in Nodes
    <3> DEFINE s == [state[n] EXCEPT !.following_requested = TRUE, !.leaders_address = call[c].leader]
    <3>1. s \in NodeState /\ s.role = state[n].role /\ s.followers_address = state[n].followers_address
           /\ s.user_response = state[n].user_response /\ s.leaders_address = call[c].leader
      BY <1>n DEF NodeState, Address
    <3> QED BY <2>1, <3>1, <1>n DEF TypeOK
  <2>4. TypeOK' 
    BY <2>1, <2>2, <2>3, AskWoken DEF TypeOK
  <2>5. Addressed' 
    BY <2>1, <2>2, <1>n, AskWoken DEF Addressed
  <2>6. CallsInOrder' 
    BY <2>2 DEF CallsInOrder
  <2>7. RequestIsAsked' /\ PagesKnown'
    BY <2>1, <2>3, AskWoken, <1>n DEF TypeOK, RequestIsAsked, PagesKnown
  <2>8. YesIsMeant' /\ FollowsOnlyAfterYes' /\ QuestionNamesLeader'
    BY <2>1, <2>3 DEF YesIsMeant, FollowsOnlyAfterYes, QuestionNamesLeader
  <2>9. LeadsOnlyAccepted' 
    BY <2>2, <2>3 DEF LeadsOnlyAccepted, CallsInOrder
  <2>10. IndependentIsClean' 
    BY <2>2, <2>3 DEF IndependentIsClean, Pending
  <2> QED BY <2>4, <2>5, <2>6, <2>7, <2>8, <2>9, <2>10
<1> QED BY <1>1, <1>2

\* The only step that makes a follower: it needs the yes of the node's user.
LEMMA FollowResumesPreserves ==
  ASSUME IInv, NEW c \in Calls, FollowResumes(c)
  PROVE  IInv'
<1> DEFINE n == call[c].target
           accept == UserAccepted(n)
<1> USE DEF IInv
<1>1. /\ call[c] \in Call /\ call[c].follow = "woken" /\ call[c].collect \notin {"done", "idle"}
      /\ call[c].leader \in Nodes /\ n \in Nodes /\ state[n] \in NodeState
  BY DEF TypeOK, Addressed, CallsInOrder, FollowResumes
<1>2. /\ call' \in [Calls -> Call]
      /\ \A x \in Calls \ {c} : call'[x] = call[x]
      /\ call'[c].leader = call[c].leader /\ call'[c].target = n
      /\ call'[c].collect = call[c].collect
      /\ call'[c].follow = "answered"
  <2> DEFINE d == [call[c] EXCEPT !.follow = "answered", !.accepted = accept]
  <2>a. accept \in BOOLEAN
    BY DEF UserAccepted
  <2>1. /\ d \in Call /\ d.leader = call[c].leader /\ d.target = n
        /\ d.collect = call[c].collect /\ d.follow = "answered"
    BY <1>1, <2>a DEF Call
  <2>2. call' = [call EXCEPT ![c] = d]
    BY DEF FollowResumes
  <2> HIDE DEF d
  <2> QED BY <2>1, <2>2 DEF TypeOK
<1>3. UNCHANGED <<ask_event, cancel_event, socket, reset, stream, consent>>
  BY DEF FollowResumes
<1>4. /\ reply_event' \in [Nodes -> BOOLEAN]
      /\ \A m \in Nodes : reply_event'[m] => reply_event[m]
  BY DEF FollowResumes, TypeOK
<1>5. notified' \in [Nodes -> SUBSET Nodes]
  BY DEF FollowResumes, TypeOK
<1>6. PICK r \in {"FOLLOWER", state[n].role}, a \in Address, q \in BOOLEAN, u \in Responses :
        /\ state' = [state EXCEPT ![n] = [state[n] EXCEPT !.role = r, !.leaders_address = a,
                                            !.following_requested = q, !.user_response = u]]
        /\ r = "FOLLOWER" /\ state[n].role # "FOLLOWER" => consent[n] # {}
        /\ u = "yes" => state[n].user_response = "yes"
        /\ q => a \in Nodes
        /\ a # NoNode \/ q => r = "FOLLOWER"
  <2>1. CASE accept
    <3>1. state' = [state EXCEPT ![n] = [state[n] EXCEPT !.role = "FOLLOWER",
                                                         !.leaders_address = call[c].leader]]
      BY <2>1 DEF FollowResumes
    <3>2. [state[n] EXCEPT !.role = "FOLLOWER", !.leaders_address = call[c].leader]
            = [state[n] EXCEPT !.role = "FOLLOWER", !.leaders_address = call[c].leader,
                 !.following_requested = state[n].following_requested,
                 !.user_response = state[n].user_response]
      BY <1>1 DEF NodeState
    <3>3. consent[n] # {}
      BY <1>1, <2>1 DEF YesIsMeant, UserAccepted
    <3>4. state[n].following_requested \in BOOLEAN /\ state[n].user_response \in Responses
      BY <1>1 DEF NodeState
    <3> QED BY <1>1, <3>1, <3>2, <3>3, <3>4 DEF Address
  <2>2. CASE ~accept
    <3>1. state' = [state EXCEPT ![n] = [state[n] EXCEPT !.leaders_address = NoNode,
                                           !.following_requested = FALSE, !.user_response = "none"]]
      BY <2>2 DEF FollowResumes, FollowRefused
    <3>2. [state[n] EXCEPT !.leaders_address = NoNode, !.following_requested = FALSE,
                           !.user_response = "none"]
            = [state[n] EXCEPT !.role = state[n].role, !.leaders_address = NoNode,
                 !.following_requested = FALSE, !.user_response = "none"]
      BY <1>1 DEF NodeState
    <3> QED BY <1>1, <3>1, <3>2 DEF Address, Responses
  <2> QED BY <2>1, <2>2
<1>7. /\ state' \in [Nodes -> NodeState]
      /\ \A m \in Nodes \ {n} : state'[m] = state[m]
      /\ state'[n].role = r /\ state'[n].leaders_address = a
      /\ state'[n].following_requested = q /\ state'[n].user_response = u
      /\ state'[n].followers_address = state[n].followers_address
  <2> DEFINE s == [state[n] EXCEPT !.role = r, !.leaders_address = a,
                                   !.following_requested = q, !.user_response = u]
  <2>1. /\ s \in NodeState /\ s.role = r /\ s.leaders_address = a
        /\ s.following_requested = q /\ s.user_response = u
        /\ s.followers_address = state[n].followers_address
    BY <1>1 DEF NodeState, Roles
  <2>2. state' = [state EXCEPT ![n] = s]
    BY <1>6
  <2> HIDE DEF s
  <2> QED BY <1>1, <2>1, <2>2 DEF TypeOK
<1>8. TypeOK'
  BY <1>2, <1>3, <1>4, <1>5, <1>7 DEF TypeOK
<1>9. Addressed' /\ CallsInOrder'
  BY <1>1, <1>2, <1>3 DEF Addressed, CallsInOrder
<1>10. RequestIsAsked' /\ PagesKnown'
  BY <1>1, <1>3, <1>6, <1>7 DEF RequestIsAsked, PagesKnown
<1>11. YesIsMeant' /\ FollowsOnlyAfterYes' /\ QuestionNamesLeader'
  BY <1>3, <1>6, <1>7 DEF YesIsMeant, FollowsOnlyAfterYes, QuestionNamesLeader
<1>12. LeadsOnlyAccepted'
  BY <1>1, <1>2, <1>6, <1>7 DEF LeadsOnlyAccepted, CallsInOrder
<1>13. \A m \in Nodes \ {n} : Pending(m)' = Pending(m)
  BY <1>2 DEF Pending
<1>14. IndependentIsClean'
  BY <1>1, <1>6, <1>7, <1>13 DEF IndependentIsClean
<1> QED BY <1>8, <1>9, <1>10, <1>11, <1>12, <1>14

-----------------------------------------------------------------------------
(* The theorems *)

LEMMA InitIInv == Init => IInv
<1> SUFFICES ASSUME Init PROVE IInv
  OBVIOUS
<1>1. TypeOK
  BY DEF Init, TypeOK, InitialNodeState, NodeState, Roles, Responses, Address, Call, Socket,
         Reset, Stream
<1>2. Addressed /\ CallsInOrder /\ PagesKnown
  BY DEF Init, Addressed, CallsInOrder, PagesKnown
<1>3. \A n \in Nodes : state[n] = InitialNodeState
  BY DEF Init
<1>5. RequestIsAsked
  BY <1>3 DEF InitialNodeState, RequestIsAsked
<1>4. YesIsMeant /\ FollowsOnlyAfterYes /\ LeadsOnlyAccepted /\ IndependentIsClean
        /\ QuestionNamesLeader
  BY <1>3 DEF InitialNodeState, YesIsMeant, FollowsOnlyAfterYes, LeadsOnlyAccepted,
              IndependentIsClean, QuestionNamesLeader
<1> QED BY <1>1, <1>2, <1>4, <1>5 DEF IInv

LEMMA NextPreserves == IInv /\ [Next]_vars => IInv'
<1> SUFFICES ASSUME IInv, [Next]_vars PROVE IInv'
  OBVIOUS
<1>1. CASE Environment
  BY <1>1, CollectFollowerPreserves, CollectFailsPreserves, SocketOpenClosePreserves,
     ResetStartPreserves, StreamStepPreserves DEF Environment
<1>2. CASE UserAnswers
  BY <1>2, SocketReplyPreserves DEF UserAnswers
<1>3. CASE \E c \in Calls : CallStep(c)
  BY <1>3, FollowRequestedPreserves, FollowWaitsPreserves, FollowResumesPreserves,
     CollectAnsweredPreserves DEF CallStep
<1>4. CASE \E w \in Sockets : SocketStep(w)
  BY <1>4, AskStepPreserves DEF SocketStep
<1>5. CASE \E r \in Resets : ResetStep(r)
  BY <1>5, ProtocolCancelledPreserves, ProtocolCancelledClearsPreserves, ResetFinishPreserves
     DEF ResetStep
<1>6. CASE \E s \in Streams : StreamStep(s)
  BY <1>6, StreamStepPreserves
<1>7. CASE UNCHANGED vars
  <2>1. UNCHANGED <<state, consent, call>>
    BY <1>7 DEF vars
  <2>2. Sessions'
    BY <2>1, SessionsUntouched DEF IInv, Sessions
  <2>3. TypeOK' /\ Addressed' /\ RequestIsAsked' /\ PagesKnown'
    BY <1>7 DEF IInv, TypeOK, Addressed, RequestIsAsked, PagesKnown, vars
  <2> QED BY <2>2, <2>3 DEF IInv, Sessions
<1> QED BY <1>1, <1>2, <1>3, <1>4, <1>5, <1>6, <1>7 DEF Next

LEMMA Invariance == Spec => []IInv
<1> QED BY InitIInv, NextPreserves, PTL DEF Spec

\* The types hold in every reachable state; in particular no question is ever put
\* to a user in the name of nobody.
THEOREM TypeCorrect == Spec => []TypeOK
<1>1. IInv => TypeOK
  BY DEF IInv
<1> QED BY <1>1, Invariance, PTL

\* A request that a node has open has been put to its user, or its event is still up:
\* no page that closes, no reset and no other page's task takes the question away.
THEOREM RequestsAreAsked == Spec => []RequestIsAsked
<1>1. IInv => RequestIsAsked
  BY DEF IInv
<1> QED BY <1>1, Invariance, PTL

\* A node follows only after a yes of its user since its last reset.
THEOREM ConsentPrecedesFollowing == Spec => []FollowsOnlyAfterYes
<1>1. IInv => FollowsOnlyAfterYes
  BY DEF IInv
<1> QED BY <1>1, Invariance, PTL

\* A leader leads only a node that accepted it.
THEOREM AcceptancePrecedesLeading == Spec => []LeadsOnlyAccepted
<1>1. IInv => LeadsOnlyAccepted
  BY DEF IInv
<1> QED BY <1>1, Invariance, PTL

\* An independent node keeps nothing of an earlier session, and its open question
\* belongs to a request that is still being handled.
THEOREM IndependenceIsClean == Spec => []IndependentIsClean
<1>1. IInv => IndependentIsClean
  BY DEF IInv
<1> QED BY <1>1, Invariance, PTL

-----------------------------------------------------------------------------
(* The orderly use: a call or a reset begins only when none is under way.       *)

Handling == {"spawned", "waiting", "woken"}
Underway(c) == call[c].collect \in {"posted", "failed"}
Resetting(r) == reset[r].pc = "notifying" \/ reset[r].note \in {"sent", "sleeping"}

\* There is one call or one reset at a time, and only a reset cancels anything, ...
OneAtATime ==
  /\ \A c, d \in Calls : Underway(c) /\ Underway(d) => c = d
  /\ \A r, s \in Resets : Resetting(r) /\ Resetting(s) => r = s
  /\ \A c \in Calls, r \in Resets : ~(Underway(c) /\ Resetting(r))
  /\ \A n \in Nodes : cancel_event[n] =>
       \E r \in Resets : reset[r].note = "sleeping" /\ reset[r].peer = n

\* ... nobody follows or leads itself, ...
NobodyAlone ==
  /\ \A c \in Calls : call[c].follow # "none" => call[c].leader # call[c].target
  /\ \A n \in Nodes :
       /\ state[n].role = "FOLLOWER" => state[n].leaders_address \in Nodes \ {n}
       /\ state[n].role = "LEADER" => state[n].followers_address \in Nodes \ {n}

\* ... the node that is being asked stays free, and remembers by whom it is asked, and
\* one that has accepted follows, ...
AskedWhileFree ==
  \A c \in Calls :
    /\ call[c].follow \in Handling => state[call[c].target].role = "INDEPENDENT"
    /\ Underway(c) /\ call[c].accepted => state[call[c].target].role = "FOLLOWER"
    /\ call[c].follow \in Handling \/ (Underway(c) /\ call[c].accepted) =>
         state[call[c].target].leaders_address = call[c].leader

\* ... the peer that is told of a reset is still the peer when it ends, ...
Announced ==
  \A r \in Resets : reset[r].pc = "notifying" =>
    /\ reset[r].peer = Peer(reset[r].node)
    /\ reset[r].peer \in Nodes /\ reset[r].node \in notified[reset[r].peer]

\* ... and of two nodes, each follows and leads the other, or has been told that the
\* other leaves, or an acceptance is on its way.
TwoNodes == \A x, y, z \in Nodes : x = y \/ y = z \/ x = z

Accepting == \E c \in Calls : Underway(c) /\ call[c].accepted

InStep(n) ==
  /\ state[n].role = "FOLLOWER" =>
       \/ state[n].leaders_address \in notified[n]
       \/ Accepting
       \/ /\ state[state[n].leaders_address].role = "LEADER"
          /\ state[state[n].leaders_address].followers_address = n
  /\ state[n].role = "LEADER" =>
       \/ state[n].followers_address \in notified[n]
       \/ /\ state[state[n].followers_address].role = "FOLLOWER"
          /\ state[state[n].followers_address].leaders_address = n

OInv ==
  /\ IInv
  /\ OneAtATime
  /\ NobodyAlone
  /\ AskedWhileFree
  /\ Announced
  /\ TwoNodes => \A n \in Nodes : InStep(n)

-----------------------------------------------------------------------------
(* Steps that change no session. *)

CallsGoOn ==
  \A c \in Calls :
    /\ call'[c].leader = call[c].leader /\ call'[c].target = call[c].target
    /\ call'[c].accepted = call[c].accepted
    /\ \/ call'[c].collect = call[c].collect
       \/ call[c].collect = "posted" /\ call'[c].collect = "failed"
    /\ call'[c].follow = call[c].follow \/ {call[c].follow, call'[c].follow} \subseteq Handling

SessionsKept ==
  \A n \in Nodes :
    /\ state'[n].role = state[n].role
    /\ state'[n].leaders_address = state[n].leaders_address
    /\ state'[n].followers_address = state[n].followers_address

CancelsLess == \A n \in Nodes : cancel_event'[n] => cancel_event[n]

QuietDoes == CallsGoOn /\ SessionsKept /\ CancelsLess /\ UNCHANGED <<reset, notified>>

LEMMA UnderwayGoesOn ==
  ASSUME CallsGoOn
  PROVE  /\ \A c \in Calls : Underway(c)' <=> Underway(c)
         /\ Accepting' <=> Accepting
<1>1. \A c \in Calls : (Underway(c)' <=> Underway(c)) /\ call'[c].accepted = call[c].accepted
  BY DEF CallsGoOn, Underway
<1> QED
  BY <1>1 DEF Accepting

\* What a session consists of is the same for everybody.
LEMMA InStepKept ==
  ASSUME IInv, NobodyAlone, SessionsKept, Accepting => Accepting', notified' = notified,
         NEW n \in Nodes, InStep(n)
  PROVE  InStep(n)'
  BY DEF InStep, SessionsKept, NobodyAlone

LEMMA PeersKept ==
  ASSUME IInv, Announced, SessionsKept, UNCHANGED <<reset, notified>>
  PROVE  Announced'
<1>1. \A r \in Resets : reset[r].pc = "notifying" => reset[r].node \in Nodes
  BY DEF IInv, Addressed
<1>2. \A n \in Nodes : Peer(n)' = Peer(n)
  BY DEF Peer, SessionsKept
<1> QED
  BY <1>1, <1>2 DEF Announced

LEMMA QuietKeeps ==
  ASSUME OInv, IInv', QuietDoes
  PROVE  OInv'
<1>1. CallsGoOn /\ SessionsKept /\ CancelsLess /\ UNCHANGED <<reset, notified>>
  BY DEF QuietDoes
<1>2. OneAtATime'
  BY <1>1, UnderwayGoesOn DEF OInv, OneAtATime, Resetting, CancelsLess
<1>3. NobodyAlone'
  BY <1>1 DEF OInv, NobodyAlone, CallsGoOn, SessionsKept, Handling
<1>4. AskedWhileFree'
  <2>1. \A c \in Calls : call[c].follow \in Handling \/ call[c].accepted => call[c].target \in Nodes
    BY DEF OInv, IInv, Addressed, CallsInOrder, Handling
  <2>2. \A c \in Calls : Underway(c)' <=> Underway(c)
    BY <1>1, UnderwayGoesOn
  <2> QED
    BY <1>1, <2>1, <2>2 DEF OInv, AskedWhileFree, CallsGoOn, SessionsKept, Handling
<1>5. Announced'
  BY <1>1, PeersKept DEF OInv
<1>6. TwoNodes => \A n \in Nodes : InStep(n)'
  BY <1>1, UnderwayGoesOn, InStepKept DEF OInv
<1> QED
  BY <1>2, <1>3, <1>4, <1>5, <1>6 DEF OInv

LEMMA WakingGoesOn ==
  ASSUME TypeOK, NEW n, call' = FollowWaitersWoken(n)
  PROVE  CallsGoOn
  BY FollowWoken DEF CallsGoOn, Handling

LEMMA CallsStay == ASSUME UNCHANGED call PROVE CallsGoOn
  BY DEF CallsGoOn

LEMMA SessionsStay == ASSUME UNCHANGED state PROVE SessionsKept
  BY DEF SessionsKept

LEMMA SocketStepKeeps ==
  ASSUME OInv, IInv', NEW w \in Sockets,
         \/ SocketStep(w)
         \/ (\E n \in Nodes : SocketOpen(w, n)) \/ SocketClose(w)
         \/ \E l \in Nodes, answer \in {"yes", "no"} : SocketReply(w, l, answer)
  PROVE  OInv'
<1>1. TypeOK
  BY DEF OInv, IInv
<1>2. CASE SocketStep(w)
  BY <1>2, CallsStay, SessionsStay, QuietKeeps
     DEF SocketStep, AskWaits, AskUser, AskEnds, QuestionSent, QuietDoes, CancelsLess
<1>3. CASE (\E n \in Nodes : SocketOpen(w, n)) \/ SocketClose(w)
  <2>1. SessionsKept
    <3>1. ASSUME NEW m, NEW b, state' = [state EXCEPT ![m].listening = b] PROVE SessionsKept
      BY <1>1, <3>1 DEF SessionsKept, TypeOK, NodeState
    <3> QED
      BY <1>3, <3>1 DEF SocketOpen, SocketClose
  <2> QED
    BY <1>3, <2>1, CallsStay, QuietKeeps DEF SocketOpen, SocketClose, QuietDoes, CancelsLess
<1>4. ASSUME NEW l \in Nodes, NEW answer \in {"yes", "no"}, SocketReply(w, l, answer) PROVE OInv'
  <2>1. SessionsKept
    <3>1. PICK m : state' = [state EXCEPT ![m] = [@ EXCEPT !.user_response = answer,
                                                          !.following_requested = FALSE]]
      BY <1>4 DEF SocketReply
    <3> QED
      BY <1>1, <3>1 DEF SessionsKept, TypeOK, NodeState
  <2> QED
    BY <1>1, <1>4, <2>1, WakingGoesOn, QuietKeeps DEF SocketReply, QuietDoes, CancelsLess
<1> QED
  BY <1>2, <1>3, <1>4

LEMMA StreamStepKeeps ==
  ASSUME OInv, IInv', NEW s \in Streams,
         (\E n \in Nodes : StreamOpen(s, n)) \/ StreamClose(s) \/ StreamStep(s)
  PROVE  OInv'
<1>1. CancelsLess
  BY DEF StreamOpen, StreamClose, StreamStep, StreamWaits, StreamTimeout, StreamReports,
         StreamClears, CancelsLess, OInv, IInv, TypeOK
<1> QED
  BY <1>1, CallsStay, SessionsStay, QuietKeeps
     DEF StreamOpen, StreamClose, StreamStep, StreamWaits, StreamTimeout, StreamReports,
         StreamClears, StreamUnchanged, QuietDoes

LEMMA CallMovesOn ==
  ASSUME OInv, IInv', NEW c \in Calls, CollectFails(c) \/ FollowWaits(c)
  PROVE  OInv'
<1>1. call \in [Calls -> Call]
  BY DEF OInv, IInv, TypeOK
<1>2. CASE CollectFails(c)
  <2>1. call' = [call EXCEPT ![c].collect = "failed"] /\ call[c].collect = "posted"
    BY <1>2 DEF CollectFails
  <2>2. CallsGoOn
    BY <1>1, <2>1 DEF CallsGoOn, Call
  <2> QED
    BY <1>2, <2>2, SessionsStay, QuietKeeps DEF CollectFails, QuietDoes, CancelsLess
<1>3. CASE FollowWaits(c)
  <2>1. PICK follow \in {"woken", "waiting"} : call' = [call EXCEPT ![c].follow = follow]
    BY <1>3 DEF FollowWaits
  <2>2. CallsGoOn
    BY <1>1, <1>3, <2>1 DEF CallsGoOn, Call, Handling, FollowWaits
  <2> QED
    BY <1>3, <2>2, SessionsStay, QuietKeeps DEF FollowWaits, QuietDoes, CancelsLess
<1> QED
  BY <1>2, <1>3

-----------------------------------------------------------------------------
(* Steps of the one call. *)

LEMMA HandledIsUnderway ==
  ASSUME IInv, NEW c \in Calls
  PROVE  /\ call[c].follow \in Handling \cup {"sent"} => Underway(c)
         /\ call[c].follow \in Handling \cup {"sent"} => ~call[c].accepted
         /\ call[c].follow # "none" => call[c].leader \in Nodes /\ call[c].target \in Nodes
<1>1. call[c] \in Call /\ CallsInOrder /\ Addressed
  BY DEF IInv, TypeOK
<1> QED
  BY <1>1 DEF CallsInOrder, Addressed, Handling, Underway, Call

\* Nobody else is at it.
LEMMA Alone ==
  ASSUME IInv, OneAtATime, NEW c \in Calls, Underway(c)
  PROVE  /\ \A d \in Calls : d # c => ~Underway(d) /\ call[d].follow \notin Handling \cup {"sent"}
         /\ \A r \in Resets : ~Resetting(r)
<1>1. \A d \in Calls : d # c => ~Underway(d)
  BY DEF OneAtATime
<1> QED
  BY <1>1, HandledIsUnderway DEF OneAtATime

LEMMA QuietMeans ==
  ASSUME IInv, Quiet
  PROVE  /\ \A c \in Calls : ~Underway(c) /\ call[c].follow \notin Handling \cup {"sent"}
         /\ \A r \in Resets : ~Resetting(r)
<1>1. \A c \in Calls : ~Underway(c)
  BY DEF Quiet, Underway
<1> QED
  BY <1>1, HandledIsUnderway DEF Quiet, Resetting

LEMMA CollectFollowerKeeps ==
  ASSUME OInv, IInv', NEW c \in Calls, NEW l \in Nodes, NEW f \in Nodes, CollectFollower(c, l, f),
         Quiet, NobodyAsksItself'
  PROVE  OInv'
<1>1. /\ UNCHANGED <<state, cancel_event, reset, notified>>
      /\ \A d \in Calls : d # c => call'[d] = call[d]
      /\ call'[c] = [leader |-> l, target |-> f, collect |-> "posted", follow |-> "sent",
                     accepted |-> FALSE]
  BY DEF CollectFollower, OInv, IInv, TypeOK
<1>2. /\ \A d \in Calls : ~Underway(d) /\ call[d].follow \notin Handling
      /\ \A r \in Resets : ~Resetting(r) /\ ~Resetting(r)'
  BY <1>1, QuietMeans DEF OInv, Resetting
<1>3. \A d \in Calls : d # c => ~Underway(d)'
  BY <1>1, <1>2 DEF Underway
<1>4. OneAtATime'
  BY <1>1, <1>2, <1>3 DEF OInv, OneAtATime
<1>5. NobodyAlone'
  BY <1>1 DEF OInv, NobodyAlone, NobodyAsksItself
<1>6. AskedWhileFree'
  BY <1>1, <1>2, <1>3 DEF OInv, AskedWhileFree, Handling
<1>7. Announced'
  BY <1>1, SessionsStay, PeersKept DEF OInv
<1>8. ~Accepting
  BY <1>2 DEF Accepting
<1>9. TwoNodes => \A n \in Nodes : InStep(n)'
  BY <1>1, <1>8, SessionsStay, InStepKept DEF OInv
<1> QED
  BY <1>4, <1>5, <1>6, <1>7, <1>9 DEF OInv

\* The handler of a request answers it, or asks its user.
LEMMA FollowRequestedDoes ==
  ASSUME IInv, NEW c \in Calls, FollowRequested(c), NEW n \in Nodes, n = call[c].target
  PROVE  /\ UNCHANGED <<reply_event, cancel_event, reset, stream, consent, notified>>
         /\ \A d \in Calls : d # c => call'[d] = call[d]
         /\ call'[c].leader = call[c].leader /\ call'[c].target = n
         /\ call'[c].collect = call[c].collect /\ call'[c].accepted = call[c].accepted
         /\ \/ call'[c].follow = "answered" /\ UNCHANGED <<state, socket>>
            \/ /\ call'[c].follow = "spawned" /\ socket' = AskWaitersWoken(n)
               /\ state[n].role = "INDEPENDENT"
               /\ \A m \in Nodes : m # n => state'[m] = state[m]
               /\ state'[n].role = state[n].role /\ state'[n].leaders_address = call[c].leader
               /\ state'[n].followers_address = state[n].followers_address
               /\ state'[n].user_response = state[n].user_response
               /\ state'[n].following_requested
<1>1. call \in [Calls -> Call] /\ state \in [Nodes -> NodeState]
  BY DEF IInv, TypeOK
<1>2. UNCHANGED <<reply_event, cancel_event, reset, stream, consent, notified>>
  BY DEF FollowRequested
<1>3. PICK follow \in {"answered", "spawned"} :
        /\ call' = [call EXCEPT ![c].follow = follow]
        /\ \/ follow = "answered" /\ UNCHANGED <<state, socket>>
           \/ /\ follow = "spawned" /\ socket' = AskWaitersWoken(n) /\ state[n].role = "INDEPENDENT"
              /\ state' = [state EXCEPT ![n] = [@ EXCEPT !.following_requested = TRUE,
                                                         !.leaders_address = call[c].leader]]
  BY DEF FollowRequested, MayBeAsked
<1>4. /\ \A d \in Calls : d # c => call'[d] = call[d]
      /\ call'[c].leader = call[c].leader /\ call'[c].target = n
      /\ call'[c].collect = call[c].collect /\ call'[c].accepted = call[c].accepted
      /\ call'[c].follow = follow
  BY <1>1, <1>3 DEF Call
<1>5. CASE follow = "answered"
  BY <1>2, <1>3, <1>4, <1>5
<1>6. CASE follow = "spawned"
  <2> DEFINE s == [state[n] EXCEPT !.following_requested = TRUE,
                                   !.leaders_address = call[c].leader]
  <2>1. /\ s.role = state[n].role /\ s.leaders_address = call[c].leader
        /\ s.followers_address = state[n].followers_address
        /\ s.user_response = state[n].user_response
        /\ s.following_requested
    BY <1>1 DEF NodeState
  <2>2. state' = [state EXCEPT ![n] = s]
    BY <1>3, <1>6
  <2> HIDE DEF s
  <2>3. state'[n] = s /\ \A m \in Nodes : m # n => state'[m] = state[m]
    BY <1>1, <2>2
  <2> QED
    BY <1>2, <1>3, <1>4, <1>6, <2>1, <2>3
<1> QED
  BY <1>5, <1>6

LEMMA FollowRequestedKeeps ==
  ASSUME OInv, IInv', NEW c \in Calls, FollowRequested(c)
  PROVE  OInv'
<1>1. call[c].follow = "sent"
  BY DEF FollowRequested
<1>2. Underway(c) /\ ~call[c].accepted
  BY <1>1, HandledIsUnderway DEF OInv
<1>3. PICK n \in Nodes : n = call[c].target
  BY <1>1, HandledIsUnderway DEF OInv
<1>4. /\ UNCHANGED <<cancel_event, reset, notified>>
      /\ \A d \in Calls : d # c => call'[d] = call[d]
      /\ call'[c].leader = call[c].leader /\ call'[c].target = n
      /\ call'[c].collect = call[c].collect /\ call'[c].accepted = call[c].accepted
      /\ \/ call'[c].follow = "answered" /\ state' = state
         \/ /\ call'[c].follow = "spawned" /\ state[n].role = "INDEPENDENT"
            /\ \A m \in Nodes : m # n => state'[m] = state[m]
            /\ state'[n].role = state[n].role /\ state'[n].leaders_address = call[c].leader
            /\ state'[n].followers_address = state[n].followers_address
  BY <1>3, FollowRequestedDoes DEF OInv
<1>5. /\ \A d \in Calls : d # c => ~Underway(d) /\ call[d].follow \notin Handling
      /\ \A r \in Resets : ~Resetting(r) /\ ~Resetting(r)'
  BY <1>2, <1>4, Alone DEF OInv, Resetting
<1>6. \A d \in Calls : Underway(d)' <=> Underway(d)
  BY <1>4 DEF Underway
<1>7. OneAtATime'
  BY <1>4, <1>5, <1>6 DEF OInv, OneAtATime
<1>8. NobodyAlone'
  <2>1. \A d \in Calls : call'[d].follow # "none" => call'[d].leader # call'[d].target
    BY <1>1, <1>3, <1>4 DEF OInv, NobodyAlone
  <2>2. \A m \in Nodes : state'[m] = state[m] \/ (m = n /\ state'[m].role = "INDEPENDENT")
    BY <1>4
  <2> QED
    BY <2>1, <2>2 DEF OInv, NobodyAlone
<1>9. AskedWhileFree'
  BY <1>2, <1>3, <1>4, <1>5, <1>6 DEF OInv, AskedWhileFree, Handling
<1>10. Announced'
  BY <1>5 DEF Announced, Resetting
<1>11. Accepting' <=> Accepting
  BY <1>4, <1>6 DEF Accepting
<1>12. ASSUME TwoNodes, NEW m \in Nodes PROVE InStep(m)'
  <2>1. InStep(m)
    BY <1>12 DEF OInv
  <2> QED
    BY <1>4, <1>11, <2>1 DEF OInv, InStep, NobodyAlone
<1> QED
  BY <1>7, <1>8, <1>9, <1>10, <1>12 DEF OInv

LEMMA FollowResumesDoes ==
  ASSUME IInv, NEW c \in Calls, FollowResumes(c), NEW n \in Nodes, n = call[c].target
  PROVE  /\ UNCHANGED <<ask_event, cancel_event, socket, reset, stream, consent>>
         /\ reply_event' = IF cancel_event[n] THEN reply_event
                                              ELSE [reply_event EXCEPT ![n] = FALSE]
         /\ \A d \in Calls : d # c => call'[d] = call[d]
         /\ call'[c].leader = call[c].leader /\ call'[c].target = n
         /\ call'[c].collect = call[c].collect /\ call'[c].follow = "answered"
         /\ \A m \in Nodes : m # n => state'[m] = state[m]
         /\ state'[n].followers_address = state[n].followers_address
         /\ \/ /\ ~cancel_event[n] /\ state[n].user_response = "yes" /\ call'[c].accepted
               /\ state'[n].role = "FOLLOWER" /\ state'[n].leaders_address = call[c].leader
               /\ state'[n].following_requested = state[n].following_requested
               /\ notified' = [notified EXCEPT ![n] = @ \ {call[c].leader},
                                               ![call[c].leader] = @ \ {n}]
            \/ /\ ~call'[c].accepted /\ UNCHANGED notified
               /\ state'[n].role = state[n].role /\ state'[n].leaders_address = NoNode
               /\ state'[n].user_response = "none" /\ ~state'[n].following_requested
<1>1. call \in [Calls -> Call] /\ state \in [Nodes -> NodeState]
  BY DEF IInv, TypeOK
<1>2. PICK accept \in BOOLEAN :
        /\ call' = [call EXCEPT ![c] = [@ EXCEPT !.follow = "answered", !.accepted = accept]]
        /\ \/ /\ accept /\ ~cancel_event[n] /\ state[n].user_response = "yes"
              /\ state' = [state EXCEPT ![n] = [@ EXCEPT !.role = "FOLLOWER",
                                                         !.leaders_address = call[c].leader]]
              /\ notified' = [notified EXCEPT ![n] = @ \ {call[c].leader},
                                              ![call[c].leader] = @ \ {n}]
           \/ /\ ~accept /\ UNCHANGED notified
              /\ state' = [state EXCEPT ![n] = [@ EXCEPT !.leaders_address = NoNode,
                                                         !.following_requested = FALSE,
                                                         !.user_response = "none"]]
  <2>1. UserAccepted(n) \in BOOLEAN
    BY DEF UserAccepted
  <2> QED
    BY <2>1 DEF FollowResumes, UserAccepted, FollowRefused
<1>3. /\ \A d \in Calls : d # c => call'[d] = call[d]
      /\ call'[c].leader = call[c].leader /\ call'[c].target = n
      /\ call'[c].collect = call[c].collect /\ call'[c].follow = "answered"
      /\ call'[c].accepted = accept
  BY <1>1, <1>2 DEF Call
<1>4. /\ UNCHANGED <<ask_event, cancel_event, socket, reset, stream, consent>>
      /\ reply_event' = IF cancel_event[n] THEN reply_event
                                           ELSE [reply_event EXCEPT ![n] = FALSE]
  BY DEF FollowResumes
<1>5. CASE accept
  <2> DEFINE s == [state[n] EXCEPT !.role = "FOLLOWER", !.leaders_address = call[c].leader]
  <2>1. /\ s.followers_address = state[n].followers_address
        /\ s.role = "FOLLOWER" /\ s.leaders_address = call[c].leader
        /\ s.following_requested = state[n].following_requested
    BY <1>1 DEF NodeState
  <2>2. state' = [state EXCEPT ![n] = s]
    BY <1>2, <1>5
  <2> HIDE DEF s
  <2>3. state'[n] = s /\ \A m \in Nodes : m # n => state'[m] = state[m]
    BY <1>1, <2>2
  <2> QED
    BY <1>2, <1>3, <1>4, <1>5, <2>1, <2>3
<1>6. CASE ~accept
  <2> DEFINE s == [state[n] EXCEPT !.leaders_address = NoNode, !.following_requested = FALSE,
                                   !.user_response = "none"]
  <2>1. /\ s.followers_address = state[n].followers_address
        /\ s.role = state[n].role /\ s.leaders_address = NoNode
        /\ s.user_response = "none" /\ ~s.following_requested
    BY <1>1 DEF NodeState
  <2>2. state' = [state EXCEPT ![n] = s]
    BY <1>2, <1>6
  <2> HIDE DEF s
  <2>3. state'[n] = s /\ \A m \in Nodes : m # n => state'[m] = state[m]
    BY <1>1, <2>2
  <2> QED
    BY <1>2, <1>3, <1>4, <1>6, <2>1, <2>3
<1> QED
  BY <1>5, <1>6

LEMMA FollowResumesKeeps ==
  ASSUME OInv, IInv', NEW c \in Calls, FollowResumes(c)
  PROVE  OInv'
<1>1. call[c].follow = "woken"
  BY DEF FollowResumes
<1>2. Underway(c) /\ ~call[c].accepted
  BY <1>1, HandledIsUnderway DEF OInv, Handling
<1>3. PICK n \in Nodes : n = call[c].target
  BY <1>1, HandledIsUnderway DEF OInv
<1>4. PICK l \in Nodes : l = call[c].leader
  BY <1>1, HandledIsUnderway DEF OInv
<1>5. /\ UNCHANGED <<cancel_event, reset>>
      /\ \A d \in Calls : d # c => call'[d] = call[d]
      /\ call'[c].leader = l /\ call'[c].target = n
      /\ call'[c].collect = call[c].collect /\ call'[c].follow = "answered"
      /\ \A m \in Nodes : m # n => state'[m] = state[m]
      /\ state'[n].followers_address = state[n].followers_address
  BY <1>3, <1>4, FollowResumesDoes DEF OInv
<1>6. \/ /\ call'[c].accepted /\ state'[n].role = "FOLLOWER" /\ state'[n].leaders_address = l
      \/ /\ ~call'[c].accepted /\ UNCHANGED notified /\ state'[n].role = state[n].role
  BY <1>3, <1>4, FollowResumesDoes DEF OInv
<1>7. /\ \A d \in Calls : d # c => ~Underway(d) /\ call[d].follow \notin Handling
      /\ \A r \in Resets : ~Resetting(r) /\ ~Resetting(r)'
  BY <1>2, <1>5, Alone DEF OInv, Resetting
<1>8. \A d \in Calls : Underway(d)' <=> Underway(d)
  BY <1>5 DEF Underway
<1>9. l # n /\ state[n].role = "INDEPENDENT"
  BY <1>1, <1>3, <1>4 DEF OInv, NobodyAlone, AskedWhileFree, Handling
<1>10. OneAtATime'
  BY <1>5, <1>7, <1>8 DEF OInv, OneAtATime
<1>11. NobodyAlone'
  BY <1>1, <1>5, <1>6, <1>9 DEF OInv, NobodyAlone
<1>12. AskedWhileFree'
  BY <1>5, <1>6, <1>7, <1>8 DEF AskedWhileFree, Handling
<1>13. Announced'
  BY <1>7 DEF Announced, Resetting
<1>14. ASSUME TwoNodes, NEW m \in Nodes PROVE InStep(m)'
  <2>1. CASE call'[c].accepted
    <3>1. Accepting'
      BY <1>2, <1>8, <2>1 DEF Accepting
    <3>2. ASSUME state'[m].role = "LEADER"
          PROVE  state'[m].followers_address = n /\ state'[n].leaders_address = m
      <4>1. m # n /\ state'[m].followers_address \in Nodes \ {m}
        BY <1>6, <1>11, <2>1, <3>2 DEF NobodyAlone
      <4>2. l = m /\ state'[m].followers_address = n
        BY <1>9, <1>14, <4>1 DEF TwoNodes
      <4> QED
        BY <1>6, <2>1, <4>2
    <3> QED
      BY <1>6, <2>1, <3>1, <3>2 DEF InStep
  <2>2. CASE ~call'[c].accepted
    <3>1. ~Accepting
      BY <1>2, <1>7 DEF Accepting
    <3>2. InStep(m) /\ NobodyAlone
      BY <1>14 DEF OInv
    <3> QED
      BY <1>5, <1>6, <1>9, <2>2, <3>1, <3>2 DEF InStep, NobodyAlone
  <2> QED
    BY <2>1, <2>2
<1> QED
  BY <1>10, <1>11, <1>12, <1>13, <1>14 DEF OInv

LEMMA CollectAnsweredKeeps ==
  ASSUME OInv, IInv', NEW c \in Calls, CollectAnswered(c)
  PROVE  OInv'
<1>1. /\ call \in [Calls -> Call] /\ state \in [Nodes -> NodeState]
      /\ call[c].collect = "posted" /\ call[c].follow = "answered"
  BY DEF OInv, IInv, TypeOK, CollectAnswered
<1>2. PICK l \in Nodes, t \in Nodes : l = call[c].leader /\ t = call[c].target
  BY <1>1, HandledIsUnderway DEF OInv
<1>3. /\ UNCHANGED <<cancel_event, reset, notified>>
      /\ \A d \in Calls : d # c => call'[d] = call[d]
      /\ call'[c].leader = l /\ call'[c].target = t
      /\ call'[c].collect = "done" /\ call'[c].follow = "answered"
  BY <1>1, <1>2 DEF CollectAnswered, Call
<1>4. Underway(c)
  BY <1>1 DEF Underway
<1>5. /\ \A d \in Calls : ~Underway(d)' /\ (d # c => ~Underway(d))
      /\ \A d \in Calls : call'[d].follow \notin Handling
      /\ \A r \in Resets : ~Resetting(r) /\ ~Resetting(r)'
  BY <1>3, <1>4, Alone DEF OInv, Resetting, Underway, Handling
<1>6. OneAtATime'
  BY <1>3, <1>5 DEF OInv, OneAtATime
<1>7. AskedWhileFree'
  BY <1>5 DEF AskedWhileFree
<1>8. Announced'
  BY <1>5 DEF Announced, Resetting
<1>9. l # t /\ \A d \in Calls : call'[d].follow # "none" => call'[d].leader # call'[d].target
  BY <1>1, <1>2, <1>3 DEF OInv, NobodyAlone
<1>10. CASE ~call[c].accepted
  <2>1. state' = state
    BY <1>10 DEF CollectAnswered
  <2>2. ~Accepting
    BY <1>5, <1>10 DEF Accepting
  <2>3. NobodyAlone'
    BY <1>9, <2>1 DEF OInv, NobodyAlone
  <2> QED
    BY <1>3, <1>6, <1>7, <1>8, <2>1, <2>2, <2>3, SessionsStay, InStepKept DEF OInv
<1>11. CASE call[c].accepted
  <2>1. /\ \A m \in Nodes : m # l => state'[m] = state[m]
        /\ state'[l].role = "LEADER" /\ state'[l].followers_address = t
    <3> DEFINE s == [state[l] EXCEPT !.role = "LEADER", !.followers_address = t]
    <3>1. s.role = "LEADER" /\ s.followers_address = t
      BY <1>1 DEF NodeState
    <3>2. state' = [state EXCEPT ![l] = s]
      BY <1>2, <1>11 DEF CollectAnswered
    <3> HIDE DEF s
    <3> QED
      BY <1>1, <3>1, <3>2
  <2>2. state[t].role = "FOLLOWER" /\ state[t].leaders_address = l
    BY <1>2, <1>4, <1>11 DEF OInv, AskedWhileFree
  <2>3. NobodyAlone'
    BY <1>9, <2>1 DEF OInv, NobodyAlone
  <2>4. ASSUME TwoNodes, NEW m \in Nodes PROVE InStep(m)'
    <3>1. m = l \/ m = t
      BY <1>9, <2>4 DEF TwoNodes
    <3> QED
      BY <1>9, <2>1, <2>2, <3>1 DEF InStep
  <2> QED
    BY <1>6, <1>7, <1>8, <2>3, <2>4 DEF OInv
<1> QED
  BY <1>10, <1>11

-----------------------------------------------------------------------------
(* Resets. *)

LEMMA LocalResetDoes ==
  ASSUME IInv, NEW n \in Nodes, LocalReset(n)
  PROVE  /\ \A m \in Nodes : m # n => state'[m] = state[m] /\ consent'[m] = consent[m]
         /\ state'[n].role = "INDEPENDENT" /\ state'[n].leaders_address = NoNode
         /\ state'[n].followers_address = NoNode /\ state'[n].user_response = "none"
         /\ ~state'[n].following_requested
         /\ CallsGoOn /\ CancelsLess /\ ~cancel_event'[n]
<1>1. state \in [Nodes -> NodeState] /\ cancel_event \in [Nodes -> BOOLEAN] /\ TypeOK
  BY DEF IInv, TypeOK
<1> DEFINE s == [InitialNodeState EXCEPT !.listening = state[n].listening]
<1>2. /\ s.role = "INDEPENDENT" /\ s.leaders_address = NoNode /\ s.followers_address = NoNode
      /\ s.user_response = "none" /\ ~s.following_requested
  BY DEF InitialNodeState
<1>3. state' = [state EXCEPT ![n] = s]
  BY DEF LocalReset
<1> HIDE DEF s
<1>4. state'[n] = s /\ \A m \in Nodes : m # n => state'[m] = state[m]
  BY <1>1, <1>3
<1>5. CallsGoOn
  BY <1>1, WakingGoesOn DEF LocalReset
<1>6. CancelsLess /\ ~cancel_event'[n] /\ \A m \in Nodes : m # n => consent'[m] = consent[m]
  BY <1>1 DEF LocalReset, CancelsLess, TypeOK
<1> QED
  BY <1>2, <1>4, <1>5, <1>6

\* A node that leaves has told its peer.
LEMMA LocalResetKeeps ==
  ASSUME OInv, IInv', NEW n \in Nodes, LocalReset(n), notified' = notified,
         \A c \in Calls : ~Underway(c), OneAtATime', Announced',
         state[n].role # "INDEPENDENT" => Peer(n) \in Nodes /\ n \in notified[Peer(n)]
  PROVE  OInv'
<1>1. /\ \A m \in Nodes : m # n => state'[m] = state[m]
      /\ state'[n].role = "INDEPENDENT" /\ CallsGoOn
  BY LocalResetDoes DEF OInv
<1>2. \A c \in Calls : ~Underway(c)' /\ call'[c].follow \notin Handling
  BY <1>1, UnderwayGoesOn, HandledIsUnderway DEF OInv, CallsGoOn, Handling
<1>3. AskedWhileFree'
  BY <1>2 DEF AskedWhileFree
<1>4. NobodyAlone'
  <2>1. \A c \in Calls : call'[c].follow # "none" => call[c].follow # "none"
    BY <1>1 DEF CallsGoOn, Handling
  <2>2. \A c \in Calls : call'[c].follow # "none" => call'[c].leader # call'[c].target
    BY <1>1, <2>1 DEF OInv, NobodyAlone, CallsGoOn
  <2> QED
    BY <1>1, <2>2 DEF OInv, NobodyAlone
<1>5. ~Accepting
  BY DEF Accepting
<1>6. ASSUME TwoNodes, NEW m \in Nodes PROVE InStep(m)'
  <2>1. CASE m = n
    BY <1>1, <2>1 DEF InStep
  <2>2. CASE m # n
    <3>1. InStep(m) /\ NobodyAlone
      BY <1>6 DEF OInv
    <3>2. /\ state[m].role = "FOLLOWER" => state[m].leaders_address = n
          /\ state[m].role = "LEADER" => state[m].followers_address = n
      BY <1>6, <2>2, <3>1 DEF NobodyAlone, TwoNodes
    <3>3. state[n].role # "INDEPENDENT" => Peer(n) = m
      <4>1. state[n].role \in {"LEADER", "FOLLOWER", "INDEPENDENT"}
        BY DEF OInv, IInv, TypeOK, NodeState, Roles
      <4>2. state[n].role # "INDEPENDENT" => Peer(n) \in Nodes \ {n}
        BY <3>1, <4>1 DEF NobodyAlone, Peer
      <4> QED
        BY <1>6, <2>2, <4>2 DEF TwoNodes
    <3>4. CASE n \in notified[m]
      BY <1>1, <2>2, <3>2, <3>4 DEF InStep
    <3>5. CASE n \notin notified[m]
      <4>1. state[n].role = "INDEPENDENT"
        BY <3>3, <3>5
      <4>2. state[m].role \notin {"FOLLOWER", "LEADER"}
        BY <1>5, <3>1, <3>2, <3>5, <4>1 DEF InStep
      <4> QED
        BY <1>1, <2>2, <4>2 DEF InStep
    <3> QED
      BY <3>4, <3>5
  <2> QED
    BY <2>1, <2>2
<1> QED
  BY <1>3, <1>4, <1>6 DEF OInv

LEMMA ResetStartKeeps ==
  ASSUME OInv, IInv', NEW r \in Resets, NEW n \in Nodes, ResetStart(r, n), Quiet
  PROVE  OInv'
<1>1. /\ reset \in [Resets -> Reset] /\ state[n] \in NodeState /\ TypeOK
      /\ notified \in [Nodes -> SUBSET Nodes]
  BY DEF OInv, IInv, TypeOK
<1>2. /\ \A c \in Calls : ~Underway(c)
      /\ \A x \in Resets : ~Resetting(x)
      /\ \A m \in Nodes : ~cancel_event[m]
  BY QuietMeans DEF OInv, OneAtATime, Resetting
<1>3. state[n].role # "INDEPENDENT" => Peer(n) \in Nodes
  BY <1>1 DEF OInv, NobodyAlone, Peer, NodeState, Roles
<1>4. CASE Peer(n) = NoNode
  <2>1. /\ reset' = [reset EXCEPT ![r] = [node |-> n, peer |-> NoNode, pc |-> "done",
                                          note |-> "none"]]
        /\ LocalReset(n) /\ notified' = notified
    BY <1>4 DEF ResetStart
  <2>2. state[n].role = "INDEPENDENT"
    BY <1>3, <1>4, CoordinationAssumption
  <2>3. /\ \A x \in Resets : ~Resetting(x)'
        /\ \A m \in Nodes : ~cancel_event'[m]
        /\ \A c \in Calls : ~Underway(c)'
    BY <1>1, <1>2, <2>1, LocalResetDoes, UnderwayGoesOn DEF OInv, CancelsLess, Resetting
  <2>4. OneAtATime' /\ Announced'
    BY <2>3 DEF OneAtATime, Announced, Resetting
  <2> QED
    BY <1>2, <2>1, <2>2, <2>4, LocalResetKeeps
<1>5. CASE Peer(n) # NoNode
  <2>1. PICK p : p = Peer(n)
    OBVIOUS
  <2>2. p \in Nodes
    BY <1>1, <1>5, <2>1 DEF Peer, NodeState, Address
  <2>3. /\ reset' = [reset EXCEPT ![r] = [node |-> n, peer |-> p, pc |-> "notifying",
                                          note |-> "sent"]]
        /\ notified' = [notified EXCEPT ![p] = notified[p] \cup {n}]
        /\ UNCHANGED <<state, cancel_event, call>>
    BY <1>5, <2>1 DEF ResetStart
  <2>4. \A x \in Resets : /\ x # r => reset'[x] = reset[x] /\ ~Resetting(x)'
                          /\ x = r => reset'[x].pc = "notifying" /\ reset'[x].note = "sent"
                                      /\ reset'[x].node = n /\ reset'[x].peer = p
    BY <1>1, <1>2, <2>3 DEF Resetting
  <2>5. \A c \in Calls : ~Underway(c)'
    BY <1>2, <2>3 DEF Underway
  <2>6. OneAtATime'
    BY <1>2, <2>3, <2>4, <2>5 DEF OneAtATime
  <2>7. Announced'
    <3>1. Peer(n)' = p /\ n \in notified'[p]
      BY <1>1, <2>1, <2>2, <2>3 DEF Peer
    <3>2. ASSUME NEW x \in Resets, reset'[x].pc = "notifying" PROVE x = r
      BY <2>4, <3>2 DEF Resetting
    <3> QED
      BY <2>2, <2>4, <3>1, <3>2 DEF Announced
  <2>8. NobodyAlone' /\ AskedWhileFree'
    BY <2>3 DEF OInv, NobodyAlone, AskedWhileFree, Underway
  <2>9. ASSUME TwoNodes, NEW m \in Nodes PROVE InStep(m)'
    <3>1. InStep(m) /\ (Accepting' <=> Accepting)
      BY <2>3, <2>9 DEF OInv, Accepting, Underway
    <3>2. notified[m] \subseteq notified'[m]
      BY <1>1, <2>2, <2>3
    <3> QED
      BY <2>3, <3>1, <3>2 DEF InStep
  <2> QED
    BY <2>6, <2>7, <2>8, <2>9 DEF OInv
<1> QED
  BY <1>4, <1>5

LEMMA ResetFinishKeeps ==
  ASSUME OInv, IInv', NEW r \in Resets, ResetFinish(r)
  PROVE  OInv'
<1>1. /\ reset \in [Resets -> Reset] /\ reset[r].pc = "notifying"
      /\ notified' = notified
  BY DEF OInv, IInv, TypeOK, ResetFinish
<1>2. PICK n \in Nodes : n = reset[r].node
  BY <1>1 DEF OInv, IInv, Addressed
<1>3. LocalReset(n) /\ reset' = [reset EXCEPT ![r].pc = "done"]
  BY <1>2 DEF ResetFinish
<1>4. Resetting(r) /\ (\A c \in Calls : ~Underway(c)) /\ \A x \in Resets : x # r => ~Resetting(x)
  BY <1>1 DEF OInv, OneAtATime, Resetting
<1>5. Peer(n) \in Nodes /\ n \in notified[Peer(n)]
  BY <1>1, <1>2 DEF OInv, Announced
<1>6. /\ \A x \in Resets : x # r => reset'[x] = reset[x]
      /\ reset'[r].pc = "done" /\ reset'[r].note = reset[r].note /\ reset'[r].peer = reset[r].peer
  BY <1>1, <1>3 DEF Reset
<1>7. Announced'
  BY <1>4, <1>6 DEF Announced, Resetting
<1>8. OneAtATime'
  <2>1. CancelsLess /\ \A c \in Calls : ~Underway(c)'
    BY <1>3, <1>4, LocalResetDoes, UnderwayGoesOn DEF OInv
  <2>2. \A x \in Resets : x # r => ~Resetting(x)'
    BY <1>4, <1>6 DEF Resetting
  <2>3. ASSUME NEW m \in Nodes, cancel_event'[m]
        PROVE  \E x \in Resets : reset'[x].note = "sleeping" /\ reset'[x].peer = m
    BY <1>6, <2>1, <2>3 DEF OInv, OneAtATime, CancelsLess
  <2> QED
    BY <2>1, <2>2, <2>3 DEF OneAtATime
<1> QED
  BY <1>1, <1>3, <1>4, <1>5, <1>7, <1>8, LocalResetKeeps

\* The peer's event is set for half a second.
LEMMA NotificationKeeps ==
  ASSUME OInv, IInv', NEW r \in Resets, ProtocolCancelled(r) \/ ProtocolCancelledClears(r)
  PROVE  OInv'
<1>1. /\ reset \in [Resets -> Reset] /\ cancel_event \in [Nodes -> BOOLEAN] /\ TypeOK
      /\ reset[r].note \in {"sent", "sleeping"}
  BY DEF OInv, IInv, TypeOK, ProtocolCancelled, ProtocolCancelledClears
<1>2. PICK note \in {"sleeping", "done"}, p \in Nodes, b \in BOOLEAN :
        /\ reset' = [reset EXCEPT ![r].note = note] /\ p = reset[r].peer
        /\ cancel_event' = [cancel_event EXCEPT ![p] = b] /\ (b => note = "sleeping")
        /\ note = "sleeping" \/ reset[r].note = "sleeping"
        /\ b \/ note = "done"
  BY <1>1 DEF OInv, IInv, Addressed, ProtocolCancelled, ProtocolCancelledClears
<1>3. UNCHANGED <<state, notified>> /\ CallsGoOn
  BY <1>1, CallsStay, WakingGoesOn DEF ProtocolCancelled, ProtocolCancelledClears
<1>4. Resetting(r) /\ (\A c \in Calls : ~Underway(c)) /\ \A x \in Resets : x # r => ~Resetting(x)
  BY <1>1 DEF OInv, OneAtATime, Resetting
<1>5. /\ \A x \in Resets : x # r => reset'[x] = reset[x]
      /\ \A x \in Resets : reset'[x].pc = reset[x].pc /\ reset'[x].node = reset[x].node
                           /\ reset'[x].peer = reset[x].peer
      /\ reset'[r].note = note
  BY <1>1, <1>2 DEF Reset
<1>6. OneAtATime'
  <2>1. \A c \in Calls : ~Underway(c)'
    BY <1>3, <1>4, UnderwayGoesOn
  <2>2. \A x \in Resets : x # r => ~Resetting(x)'
    BY <1>4, <1>5 DEF Resetting
  <2>3. ASSUME NEW m \in Nodes, cancel_event'[m] PROVE m = p /\ b
    <3>1. ASSUME m # p PROVE FALSE
      <4>1. cancel_event[m]
        BY <1>1, <1>2, <2>3, <3>1
      <4>2. PICK x \in Resets : reset[x].note = "sleeping" /\ reset[x].peer = m
        BY <4>1 DEF OInv, OneAtATime
      <4>3. x # r
        BY <1>2, <3>1, <4>2
      <4> QED
        BY <1>4, <4>2, <4>3 DEF Resetting
    <3> QED
      BY <1>1, <1>2, <2>3, <3>1
  <2> QED
    BY <1>2, <1>5, <2>1, <2>2, <2>3 DEF OneAtATime
<1>7. NobodyAlone'
  BY <1>3 DEF OInv, NobodyAlone, CallsGoOn, Handling
<1>8. AskedWhileFree'
  <2>1. \A c \in Calls : ~Underway(c)' /\ call'[c].follow \notin Handling
    BY <1>3, <1>4, UnderwayGoesOn, HandledIsUnderway DEF OInv, CallsGoOn, Handling
  <2> QED
    BY <2>1 DEF AskedWhileFree
<1>9. Announced'
  <2>1. \A m \in Nodes : Peer(m)' = Peer(m)
    BY <1>3 DEF Peer
  <2>2. \A x \in Resets : reset[x].pc = "notifying" => reset[x].node \in Nodes
    BY DEF OInv, IInv, Addressed
  <2> QED
    BY <1>3, <1>5, <2>1, <2>2 DEF OInv, Announced
<1>10. TwoNodes => \A m \in Nodes : InStep(m)'
  BY <1>3, SessionsStay, UnderwayGoesOn, InStepKept DEF OInv
<1> QED
  BY <1>6, <1>7, <1>8, <1>9, <1>10 DEF OInv

-----------------------------------------------------------------------------
LEMMA InitOInv == Init => OInv
<1> SUFFICES ASSUME Init PROVE OInv
  OBVIOUS
<1>1. /\ \A c \in Calls : call[c].collect = "idle" /\ call[c].follow = "none"
      /\ \A r \in Resets : reset[r].pc = "idle" /\ reset[r].note = "none"
      /\ \A n \in Nodes : ~cancel_event[n] /\ state[n].role = "INDEPENDENT"
  BY DEF Init, InitialNodeState
<1>2. OneAtATime
  BY <1>1 DEF OneAtATime, Underway, Resetting
<1>3. NobodyAlone /\ AskedWhileFree /\ Announced
  BY <1>1 DEF NobodyAlone, AskedWhileFree, Announced, Handling, Underway
<1>4. \A n \in Nodes : InStep(n)
  BY <1>1 DEF InStep
<1> QED
  BY <1>2, <1>3, <1>4, InitIInv DEF OInv

\* A call or a reset begins only when none is under way.
LEMMA BegunMeans ==
  ASSUME IInv, Next
  PROVE  /\ \A c \in Calls : \A l, f \in Nodes : CollectFollower(c, l, f) => Begun' # Begun
         /\ \A r \in Resets, n \in Nodes : ResetStart(r, n) => Begun' # Begun
<1>1. call \in [Calls -> Call] /\ reset \in [Resets -> Reset]
  BY DEF IInv, TypeOK
<1>2. ASSUME NEW c \in Calls, NEW l \in Nodes, NEW f \in Nodes, CollectFollower(c, l, f)
      PROVE  Begun' # Begun
  <2>1. call[c].collect = "idle" /\ call'[c].collect = "posted"
    BY <1>1, <1>2 DEF CollectFollower
  <2> QED
    BY <2>1 DEF Begun
<1>3. ASSUME NEW r \in Resets, NEW n \in Nodes, ResetStart(r, n) PROVE Begun' # Begun
  <2>1. reset[r].pc = "idle" /\ reset'[r].pc # "idle"
    BY <1>1, <1>3 DEF ResetStart
  <2> QED
    BY <2>1 DEF Begun
<1> QED
  BY <1>2, <1>3

LEMMA NextOInv == OInv /\ [OrderlyNext]_vars => OInv'
<1> SUFFICES ASSUME OInv, [OrderlyNext]_vars PROVE OInv'
  OBVIOUS
<1>1. IInv'
  BY NextPreserves DEF OInv, OrderlyNext
<1>2. CASE UNCHANGED vars
  BY <1>1, <1>2, CallsStay, SessionsStay, QuietKeeps DEF vars, QuietDoes, CancelsLess
<1>3. CASE OrderlyNext
  <2>1. Next /\ (Begun' # Begun => Quiet) /\ IInv /\ NobodyAsksItself'
    BY <1>3 DEF OrderlyNext, OInv
  <2>2. ASSUME NEW c \in Calls, NEW l \in Collectors, NEW f \in Nodes, CollectFollower(c, l, f)
        PROVE  OInv'
    <3>1. l \in Nodes
      BY CoordinationAssumption
    <3> QED
      BY <1>1, <2>1, <2>2, <3>1, BegunMeans, CollectFollowerKeeps
  <2>3. ASSUME NEW r \in Resets, NEW n \in Nodes, ResetStart(r, n) PROVE OInv'
    BY <1>1, <2>1, <2>3, BegunMeans, ResetStartKeeps
  <2>4. CASE Environment
    BY <1>1, <2>2, <2>3, <2>4, CallMovesOn, SocketStepKeeps, StreamStepKeeps DEF Environment
  <2>5. CASE UserAnswers
    BY <1>1, <2>5, SocketStepKeeps DEF UserAnswers
  <2>6. CASE \E c \in Calls : CallStep(c)
    BY <1>1, <2>6, CallMovesOn, FollowRequestedKeeps, FollowResumesKeeps, CollectAnsweredKeeps
       DEF CallStep
  <2>7. CASE \E w \in Sockets : SocketStep(w)
    BY <1>1, <2>7, SocketStepKeeps
  <2>8. CASE \E r \in Resets : ResetStep(r)
    BY <1>1, <2>8, NotificationKeeps, ResetFinishKeeps DEF ResetStep
  <2>9. CASE \E s \in Streams : StreamStep(s)
    BY <1>1, <2>9, StreamStepKeeps
  <2> QED
    BY <2>1, <2>4, <2>5, <2>6, <2>7, <2>8, <2>9 DEF Next
<1> QED
  BY <1>2, <1>3

\* Users who call collect_follower or reset_coordination_state only when neither is under
\* way, and ask another node than their own, keep the invariant above.
THEOREM OrderlyInvariant == OrderlySpec => []OInv
  BY InitOInv, NextOInv, PTL DEF OrderlySpec

\* Of two nodes, when no collect_follower and no reset is under way, each has the role and
\* the address that the other's state says, or has been told by protocol_cancelled that the
\* other left.
THEOREM PeersDoAgree ==
  ASSUME TwoNodes PROVE OrderlySpec => []PeersAgree
<1>1. OInv => PeersAgree
  <2> SUFFICES ASSUME OInv, Quiet, NEW n \in Nodes
               PROVE  LET l == state[n].leaders_address
                          f == state[n].followers_address
                      IN  /\ state[n].role = "FOLLOWER" =>
                                \/ l \in notified[n]
                                \/ /\ l \in Nodes /\ state[l].role = "LEADER"
                                   /\ state[l].followers_address = n
                          /\ state[n].role = "LEADER" =>
                                \/ f \in notified[n]
                                \/ state[f].role = "FOLLOWER" /\ state[f].leaders_address = n
    BY DEF PeersAgree
  <2>1. ~Accepting
    BY QuietMeans DEF OInv, Accepting
  <2> QED
    BY <2>1 DEF OInv, InStep, NobodyAlone
<1> QED
  BY <1>1, OrderlyInvariant, PTL

\* What the users answer and open leaves every role as it is.
LEMMA RolesStay ==
  ASSUME IInv, NEW w \in Sockets, NEW n \in Nodes,
         \/ (\E m \in Nodes : SocketOpen(w, m)) \/ SocketClose(w)
         \/ \E l \in Nodes, answer \in {"yes", "no"} : SocketReply(w, l, answer)
  PROVE  state'[n].role = state[n].role
<1>1. state \in [Nodes -> NodeState]
  BY DEF IInv, TypeOK
<1>2. ASSUME NEW m, NEW b, state' = [state EXCEPT ![m].listening = b]
      PROVE  state'[n].role = state[n].role
  BY <1>1, <1>2 DEF NodeState
<1>3. ASSUME NEW m, NEW answer, state' = [state EXCEPT ![m] = [@ EXCEPT !.user_response = answer,
                                                                    !.following_requested = FALSE]]
      PROVE  state'[n].role = state[n].role
  BY <1>1, <1>3 DEF NodeState
<1>4. ASSUME NEW l \in Nodes, NEW answer \in {"yes", "no"}, SocketReply(w, l, answer)
      PROVE  state'[n].role = state[n].role
  BY <1>3, <1>4 DEF SocketReply
<1> QED
  BY <1>2, <1>4 DEF SocketOpen, SocketClose

\* Only a reset that had a peer to tell frees a node.
LEMMA OnlyResetsFree ==
  ASSUME OInv, Next, NEW n \in Nodes, state[n].role # "INDEPENDENT", state'[n].role = "INDEPENDENT"
  PROVE  \E r \in Resets : ResetFinish(r) /\ reset[r].node = n
<1>1. state \in [Nodes -> NodeState] /\ IInv
  BY DEF OInv, IInv, TypeOK
<1>2. ~UNCHANGED state
  OBVIOUS
<1>3. ASSUME NEW m \in Nodes, LocalReset(m) PROVE m = n
  BY <1>1, <1>3, LocalResetDoes
<1>4. ASSUME NEW c \in Calls, CallStep(c) PROVE FALSE
  <2>1. CASE FollowRequested(c)
    <3>1. PICK t \in Nodes : t = call[c].target
      BY <1>1, <2>1, HandledIsUnderway DEF FollowRequested
    <3> QED
      BY <1>1, <2>1, <3>1, FollowRequestedDoes
  <2>2. CASE FollowResumes(c)
    <3>1. PICK t \in Nodes : t = call[c].target
      BY <1>1, <2>2, HandledIsUnderway DEF FollowResumes
    <3> QED
      BY <1>1, <2>2, <3>1, FollowResumesDoes
  <2>3. CASE CollectAnswered(c)
    <3>1. PICK l, t : state' = [state EXCEPT ![l] = [@ EXCEPT !.role = "LEADER",
                                                             !.followers_address = t]]
      BY <1>2, <2>3 DEF CollectAnswered
    <3> QED
      BY <1>1, <3>1 DEF NodeState
  <2> QED
    BY <1>2, <1>4, <2>1, <2>2, <2>3 DEF CallStep, FollowWaits
<1>5. ASSUME NEW r \in Resets, NEW m \in Nodes, ResetStart(r, m) PROVE FALSE
  <2>1. LocalReset(m) /\ Peer(m) = NoNode
    BY <1>2, <1>5 DEF ResetStart
  <2>2. Peer(n) \in Nodes
    BY <1>1 DEF OInv, NobodyAlone, Peer, NodeState, Roles
  <2> QED
    BY <1>3, <2>1, <2>2, CoordinationAssumption
<1>6. ASSUME NEW r \in Resets, ResetStep(r) PROVE ResetFinish(r) /\ reset[r].node = n
  <2>1. ResetFinish(r)
    BY <1>2, <1>6 DEF ResetStep, ProtocolCancelled, ProtocolCancelledClears
  <2>2. reset[r].node \in Nodes /\ LocalReset(reset[r].node)
    BY <1>1, <2>1 DEF ResetFinish, IInv, Addressed
  <2> QED
    BY <1>3, <2>1, <2>2
<1>7. ~Environment
  BY <1>1, <1>2, <1>5, RolesStay
     DEF Environment, CollectFollower, CollectFails, StreamOpen, StreamClose, StreamUnchanged
<1>8. ~UserAnswers
  BY <1>1, RolesStay DEF UserAnswers
<1>9. ~(\E w \in Sockets : SocketStep(w)) /\ ~(\E s \in Streams : StreamStep(s))
  BY <1>2 DEF SocketStep, AskWaits, AskUser, QuestionSent, StreamStep, StreamWaits, StreamTimeout,
              StreamReports, StreamClears, StreamUnchanged
<1> QED
  BY <1>4, <1>6, <1>7, <1>8, <1>9 DEF Next

\* reset_coordination_state frees a node that has a peer only after it has notified that
\* peer, the one it still has when the await ends.
THEOREM LeavingIsAnnounced == OrderlySpec => ResetNotifiesPeer
<1>1. OInv /\ OInv' /\ [OrderlyNext]_vars =>
        [\A n \in Nodes :
           state[n].role # "INDEPENDENT" /\ state'[n].role = "INDEPENDENT" =>
             \E p \in Nodes :
               /\ n \in notified[p]
               /\ p = IF state[n].role = "LEADER" THEN state[n].followers_address
                                                 ELSE state[n].leaders_address]_vars
  <2> SUFFICES ASSUME OInv, OrderlyNext, NEW n \in Nodes,
                      state[n].role # "INDEPENDENT", state'[n].role = "INDEPENDENT"
               PROVE  \E p \in Nodes :
                        /\ n \in notified[p]
                        /\ p = IF state[n].role = "LEADER" THEN state[n].followers_address
                                                          ELSE state[n].leaders_address
    OBVIOUS
  <2>1. state[n] \in NodeState
    BY DEF OInv, IInv, TypeOK
  <2>2. PICK r \in Resets : ResetFinish(r) /\ reset[r].node = n
    BY OnlyResetsFree DEF OrderlyNext
  <2>3. Peer(n) \in Nodes /\ n \in notified[Peer(n)]
    BY <2>2 DEF OInv, Announced, ResetFinish
  <2> QED
    BY <2>1, <2>3 DEF Peer, NodeState, Roles
<1> QED
  BY <1>1, OrderlyInvariant, PTL DEF OrderlySpec, ResetNotifiesPeer

-----------------------------------------------------------------------------
(* What a user has agreed to, with one page open on each node at a time.        *)

OnePage ==
  \A v, w \in Sockets :
    socket[v].conn = "open" /\ socket[w].conn = "open" /\ socket[v].node = socket[w].node => v = w

\* Only an open page shows its questions.
Shown(w) == {l \in socket[w].questions : socket[w].conn = "open"}

\* Each question a page of node n shows, the reply its user has given and the yes it
\* holds are about the request that n is handling, ...
AskedForCall(n) ==
  \A w \in Sockets : \A l \in Shown(w) : socket[w].node = n =>
    state[n].following_requested /\ \E c \in Pending(n) : call[c].leader = l

AnsweredForCall(n) ==
  /\ state[n].following_requested => state[n].role = "INDEPENDENT"
  /\ \A c \in Pending(n) : call[c].follow = "woken" => ~state[n].following_requested
  /\ reply_event[n] => \E c \in Pending(n) : call[c].follow = "woken"
  /\ state[n].user_response = "yes" =>
       state[n].role # "INDEPENDENT" \/ \E c \in Pending(n) : call[c].leader \in consent[n]

\* ... and so is the leader it follows.
Agreed(n) ==
  /\ AskedForCall(n)
  /\ AnsweredForCall(n)
  /\ state[n].role = "FOLLOWER" => state[n].leaders_address \in consent[n]

PInv == OInv /\ \A n \in Nodes : Agreed(n)

\* The step does nothing on node n, except that pages may forget questions.
PendingKept(n) ==
  \A c \in Calls :
    /\ c \in Pending(n)' <=> c \in Pending(n)
    /\ c \in Pending(n) => call'[c].leader = call[c].leader
    /\ c \in Pending(n) => (call'[c].follow = "woken" <=> call[c].follow = "woken")

PagesKept(n) ==
  \A w \in Sockets : \A l \in Shown(w)' :
    socket'[w].node = n => l \in Shown(w) /\ socket[w].node = n

UserKept(n) ==
  /\ state'[n].role = state[n].role
  /\ state'[n].leaders_address = state[n].leaders_address
  /\ state'[n].following_requested = state[n].following_requested
  /\ state'[n].user_response = state[n].user_response
  /\ reply_event'[n] = reply_event[n]
  /\ consent'[n] = consent[n]

LEMMA Untouched ==
  ASSUME NEW n \in Nodes, Agreed(n), PendingKept(n), PagesKept(n), UserKept(n)
  PROVE  Agreed(n)'
<1>1. AskedForCall(n)'
  <2> SUFFICES ASSUME NEW w \in Sockets, NEW l \in Shown(w)', socket'[w].node = n
               PROVE  state'[n].following_requested /\ \E c \in Pending(n)' : call'[c].leader = l
    BY DEF AskedForCall
  <2>1. state[n].following_requested /\ \E c \in Pending(n) : call[c].leader = l
    BY DEF PagesKept, Agreed, AskedForCall
  <2>2. Pending(n) \subseteq Calls
    BY DEF Pending
  <2> QED
    BY <2>1, <2>2 DEF PendingKept, UserKept
<1>2. AnsweredForCall(n)'
  <2>1. Pending(n) \subseteq Calls /\ Pending(n)' \subseteq Calls
    BY DEF Pending
  <2> QED
    BY <2>1 DEF Agreed, AnsweredForCall, PendingKept, UserKept
<1> QED
  BY <1>1, <1>2 DEF Agreed, UserKept

\* No request is being handled while nothing is under way or a reset is.
LEMMA NonePending ==
  ASSUME IInv, \A c \in Calls : ~Underway(c)
  PROVE  \A n \in Nodes : Pending(n) = {}
  BY HandledIsUnderway DEF Pending, Handling

LEMMA OnePending ==
  ASSUME IInv, OneAtATime, NEW n \in Nodes, NEW c \in Calls, Underway(c)
  PROVE  Pending(n) \subseteq {c}
  BY Alone DEF Pending, Handling

\* With no request on node n there is no question, no reply and no yes.
LEMMA NothingAsked ==
  ASSUME NEW n \in Nodes, Agreed(n), Pending(n) = {}
  PROVE  /\ ~reply_event[n]
         /\ \A w \in Sockets : socket[w].node = n => Shown(w) = {}
         /\ state[n].user_response = "yes" => state[n].role # "INDEPENDENT"
  BY DEF Agreed, AskedForCall, AnsweredForCall


\* Steps of the calls, the streams and the resets that touch no page.
SamePages == UNCHANGED <<socket, state, reply_event, consent>>

LEMMA ElsewhereKeeps ==
  ASSUME PInv, SamePages, \A n \in Nodes : PendingKept(n)
  PROVE  \A n \in Nodes : Agreed(n)'
<1>1. \A n \in Nodes : PagesKept(n) /\ UserKept(n)
  BY DEF SamePages, PagesKept, UserKept, Shown
<1> QED
  BY <1>1, Untouched DEF PInv

LEMMA SamePending == ASSUME UNCHANGED call, NEW n PROVE PendingKept(n)
  BY DEF PendingKept, Pending

\* The calls that wait are woken by nothing but a reply while one is under way.
LEMMA NobodyWoken ==
  ASSUME IInv, NEW n, NEW m, \A d \in Calls : ~Underway(d), call' = FollowWaitersWoken(m)
  PROVE  PendingKept(n)
<1>1. TypeOK
  BY DEF IInv
<1>2. \A d \in Calls : call[d].follow \notin Handling
  BY HandledIsUnderway
<1>3. \A d \in Calls : call'[d].follow = call[d].follow
  BY <1>1, <1>2, FollowWoken DEF Handling
<1> QED
  BY <1>2, <1>3 DEF PendingKept, Pending, Handling

LEMMA AgreedElsewhere ==
  ASSUME PInv, IInv',
         \/ \E c \in Calls, l, f \in Nodes : CollectFollower(c, l, f)
         \/ \E c \in Calls : CollectFails(c) \/ FollowWaits(c)
         \/ \E r \in Resets : ProtocolCancelled(r) \/ ProtocolCancelledClears(r)
         \/ \E s \in Streams :
              (\E n \in Nodes : StreamOpen(s, n)) \/ StreamClose(s) \/ StreamStep(s)
         \/ UNCHANGED vars
  PROVE  \A n \in Nodes : Agreed(n)'
<1>1. /\ call \in [Calls -> Call] /\ reset \in [Resets -> Reset] /\ IInv /\ OneAtATime
      /\ CallsInOrder
  BY DEF PInv, OInv, IInv, TypeOK
<1>2. SamePages
  BY DEF CollectFollower, CollectFails, FollowWaits, ProtocolCancelled, ProtocolCancelledClears,
         StreamOpen, StreamClose, StreamStep, StreamWaits, StreamTimeout, StreamReports,
         StreamClears, StreamUnchanged, vars, SamePages
<1>3. ASSUME NEW c \in Calls, NEW l \in Nodes, NEW f \in Nodes, CollectFollower(c, l, f),
             NEW n \in Nodes
      PROVE  PendingKept(n)
  <2>1. /\ \A d \in Calls : d # c => call'[d] = call[d]
        /\ call[c].follow = "none" /\ call'[c].follow = "sent"
    BY <1>1, <1>3 DEF CollectFollower, CallsInOrder
  <2> QED
    BY <2>1 DEF PendingKept, Pending
<1>4. ASSUME NEW c \in Calls, CollectFails(c), NEW n \in Nodes PROVE PendingKept(n)
  <2>1. \A d \in Calls : /\ call'[d].follow = call[d].follow /\ call'[d].leader = call[d].leader
                         /\ call'[d].target = call[d].target
    BY <1>1, <1>4 DEF CollectFails, Call
  <2> QED
    BY <2>1 DEF PendingKept, Pending
<1>5. ASSUME NEW c \in Calls, FollowWaits(c), NEW n \in Nodes PROVE PendingKept(n)
  <2>1. call[c].follow = "spawned" /\ Underway(c)
    BY <1>1, <1>5, HandledIsUnderway DEF FollowWaits, Handling
  <2>2. PICK t \in Nodes : t = call[c].target
    BY <1>1, <2>1, HandledIsUnderway
  <2>3. ~cancel_event[t]
    BY <1>1, <2>1, Alone DEF OneAtATime, Resetting
  <2>4. ~reply_event[t]
    <3>1. Pending(t) \subseteq {c}
      BY <1>1, <2>1, OnePending
    <3> QED
      BY <2>1, <3>1 DEF PInv, Agreed, AnsweredForCall
  <2>5. call' = [call EXCEPT ![c].follow = "waiting"]
    BY <1>5, <2>2, <2>3, <2>4 DEF FollowWaits
  <2>6. \A d \in Calls : /\ call'[d].leader = call[d].leader /\ call'[d].target = call[d].target
                         /\ d # c => call'[d].follow = call[d].follow
                         /\ d = c => call'[d].follow = "waiting"
    BY <1>1, <2>5 DEF Call
  <2> QED
    BY <2>1, <2>6 DEF PendingKept, Pending
<1>6. ASSUME NEW r \in Resets, ProtocolCancelled(r), NEW n \in Nodes PROVE PendingKept(n)
  <2>1. \A d \in Calls : ~Underway(d)
    BY <1>1, <1>6 DEF ProtocolCancelled, OneAtATime, Resetting
  <2> QED
    BY <1>1, <1>6, <2>1, NobodyWoken DEF ProtocolCancelled
<1>7. \A n \in Nodes : UNCHANGED call => PendingKept(n)
  BY SamePending
<1>8. \A n \in Nodes : PendingKept(n)
  BY <1>3, <1>4, <1>5, <1>6, <1>7
     DEF ProtocolCancelledClears, StreamOpen, StreamClose, StreamStep, StreamWaits, StreamTimeout,
         StreamReports, StreamClears, StreamUnchanged, vars
<1> QED
  BY <1>2, <1>8, ElsewhereKeeps

-----------------------------------------------------------------------------
(* The pages. *)

LEMMA AgreedOnOpenClose ==
  ASSUME PInv, NEW w \in Sockets, (\E m \in Nodes : SocketOpen(w, m)) \/ SocketClose(w)
  PROVE  \A n \in Nodes : Agreed(n)'
<1>1. socket \in [Sockets -> Socket] /\ state \in [Nodes -> NodeState]
  BY DEF PInv, OInv, IInv, TypeOK
<1>2. (\A v \in Sockets : v # w => socket'[v] = socket[v]) /\ Shown(w)' = {}
  <2>1. CASE SocketClose(w)
    <3> DEFINE s == [socket[w] EXCEPT !.conn = "gone"]
    <3>1. s.conn = "gone" /\ socket' = [socket EXCEPT ![w] = s]
      BY <1>1, <2>1 DEF SocketClose, Socket
    <3> HIDE DEF s
    <3> QED
      BY <1>1, <3>1 DEF Shown
  <2> QED
    BY <1>1, <2>1 DEF SocketOpen, Shown
<1>3. ASSUME NEW n \in Nodes PROVE UserKept(n)
  <2>1. ASSUME NEW m, NEW b, state' = [state EXCEPT ![m].listening = b]
        PROVE  /\ state'[n].role = state[n].role
               /\ state'[n].leaders_address = state[n].leaders_address
               /\ state'[n].following_requested = state[n].following_requested
               /\ state'[n].user_response = state[n].user_response
    BY <1>1, <2>1 DEF NodeState
  <2> QED
    BY <2>1 DEF UserKept, SocketOpen, SocketClose
<1>4. \A n \in Nodes : PendingKept(n)
  BY SamePending DEF SocketOpen, SocketClose
<1>5. \A n \in Nodes : PagesKept(n)
  BY <1>2 DEF PagesKept, Shown
<1> QED
  BY <1>3, <1>4, <1>5, Untouched DEF PInv

\* A question names the leader of the request that is being handled.
LEMMA AgreedOnAsk ==
  ASSUME PInv, NEW w \in Sockets, SocketStep(w)
  PROVE  \A n \in Nodes : Agreed(n)'
<1>1. socket \in [Sockets -> Socket] /\ socket[w].node \in Nodes /\ IInv
  BY DEF PInv, OInv, IInv, TypeOK, Addressed, SocketStep, AskWaits, AskUser, QuestionSent
<1>2. PICK p \in Nodes : p = socket[w].node
  BY <1>1
<1>3. UNCHANGED <<state, reply_event, call, consent>>
  BY DEF SocketStep, AskWaits, AskUser, QuestionSent
<1>4. PICK ask \in {"waiting", "sending", "ended"}, asked \in SUBSET {state[p].leaders_address} :
        /\ \/ socket' = [socket EXCEPT ![w].ask = ask] /\ asked = {}
           \/ socket' = [socket EXCEPT ![w] =
                           [socket[w] EXCEPT !.ask = ask,
                                             !.questions = socket[w].questions \cup asked]]
        /\ asked # {} => state[p].following_requested /\ socket[w].conn = "open"
  BY <1>2 DEF SocketStep, AskWaits, AskUser, AskEnds, QuestionSent
<1>5. /\ \A v \in Sockets : /\ socket'[v].node = socket[v].node
                            /\ socket'[v].conn = socket[v].conn
      /\ \A v \in Sockets : v # w => socket'[v].questions = socket[v].questions
      /\ socket'[w].questions = socket[w].questions \cup asked
  <2>1. ASSUME socket' = [socket EXCEPT ![w].ask = ask], asked = {}
        PROVE  /\ \A v \in Sockets : v # w => socket'[v] = socket[v]
               /\ socket'[w].node = socket[w].node /\ socket'[w].conn = socket[w].conn
               /\ socket'[w].questions = socket[w].questions
    BY <1>1, <2>1 DEF Socket
  <2> DEFINE s == [socket[w] EXCEPT !.ask = ask, !.questions = socket[w].questions \cup asked]
  <2>2. /\ s.node = socket[w].node /\ s.conn = socket[w].conn
        /\ s.questions = socket[w].questions \cup asked
    BY <1>1 DEF Socket
  <2>3. \/ socket' = [socket EXCEPT ![w] = s]
        \/ asked = {} /\ socket' = [socket EXCEPT ![w].ask = ask]
    BY <1>4
  <2> HIDE DEF s
  <2>4. ASSUME socket' = [socket EXCEPT ![w] = s]
        PROVE  socket'[w] = s /\ \A v \in Sockets : v # w => socket'[v] = socket[v]
    BY <1>1, <2>4
  <2> QED
    BY <2>1, <2>2, <2>3, <2>4
<1>7. ASSUME NEW n \in Nodes, n # p PROVE Agreed(n)'
  BY <1>2, <1>3, <1>5, <1>7, SamePending, Untouched DEF PInv, PagesKept, UserKept, Shown
<1>8. Agreed(p)'
  <2>1. CASE asked = {}
    BY <1>3, <1>5, <2>1, SamePending, Untouched DEF PInv, PagesKept, UserKept, Shown
  <2>2. CASE asked # {}
    <3>1. state[p].following_requested /\ asked = {state[p].leaders_address}
      BY <1>4, <2>2
    <3>2. PICK c \in Pending(p) : call[c].leader = state[p].leaders_address
      BY <1>1, <3>1 DEF PInv, Agreed, AnsweredForCall, IInv, IndependentIsClean, OInv,
                        AskedWhileFree, Pending, Handling
    <3>3. AskedForCall(p)
      BY DEF PInv, Agreed
    <3>4. AskedForCall(p)'
      BY <1>3, <1>5, <3>1, <3>2, <3>3 DEF AskedForCall, Pending, Shown
    <3> QED
      BY <1>3, <3>4 DEF PInv, Agreed, AnsweredForCall, Pending
  <2> QED
    BY <2>1, <2>2
<1> QED
  BY <1>7, <1>8


\* The user answers the question about the request that waits.
LEMMA AgreedOnReply ==
  ASSUME PInv, OnePage, NEW w \in Sockets, NEW l \in Nodes, NEW answer \in {"yes", "no"},
         SocketReply(w, l, answer)
  PROVE  \A n \in Nodes : Agreed(n)'
<1>1. /\ call \in [Calls -> Call] /\ socket \in [Sockets -> Socket]
      /\ state \in [Nodes -> NodeState] /\ consent \in [Nodes -> SUBSET Nodes]
      /\ reply_event \in [Nodes -> BOOLEAN]
      /\ TypeOK /\ IInv /\ OneAtATime
  BY DEF PInv, OInv, IInv, TypeOK
<1>2. socket[w].conn = "open" /\ l \in Shown(w)
  BY DEF SocketReply, Shown
<1>3. PICK n \in Nodes : n = socket[w].node
  BY <1>1, <1>2 DEF IInv, Addressed
<1>4. AskedForCall(n) /\ AnsweredForCall(n)
  BY <1>3 DEF PInv, Agreed
<1>5. state[n].following_requested /\ state[n].role = "INDEPENDENT"
  BY <1>2, <1>3, <1>4 DEF AskedForCall, AnsweredForCall
<1>6. PICK c \in Calls : c \in Pending(n) /\ call[c].leader = l
  BY <1>2, <1>3, <1>4 DEF AskedForCall, Pending
<1>7. Pending(n) \subseteq {c}
  <2>1. Underway(c)
    BY <1>1, <1>6, HandledIsUnderway DEF Pending, Handling
  <2> QED
    BY <1>1, <2>1, OnePending
<1>8. call[c].target = n /\ call[c].follow = "waiting"
  BY <1>3, <1>4, <1>5, <1>6 DEF SocketReply, AnsweredForCall, Pending
<1>9. /\ \A d \in Calls : call'[d].leader = call[d].leader /\ call'[d].target = call[d].target
      /\ \A d \in Calls : call'[d].follow = IF call[d].target = n /\ call[d].follow = "waiting"
                                              THEN "woken" ELSE call[d].follow
  BY <1>1, <1>3, FollowWoken DEF SocketReply
<1>10. \A m \in Nodes : m # n => PendingKept(m)
  BY <1>9 DEF PendingKept, Pending
<1>11. Pending(n)' = {c} /\ call'[c].follow = "woken" /\ call'[c].leader = l
  BY <1>6, <1>7, <1>8, <1>9 DEF Pending
<1>12. /\ \A m \in Nodes : m # n => state'[m] = state[m] /\ reply_event'[m] = reply_event[m]
                                    /\ consent'[m] = consent[m]
       /\ state'[n].role = state[n].role /\ state'[n].user_response = answer
       /\ ~state'[n].following_requested
       /\ answer = "yes" => l \in consent'[n]
  <2> DEFINE s == [state[n] EXCEPT !.user_response = answer, !.following_requested = FALSE]
  <2>1. s.role = state[n].role /\ s.user_response = answer /\ ~s.following_requested
    BY <1>1 DEF NodeState
  <2>2. /\ state' = [state EXCEPT ![n] = s]
        /\ reply_event' = [reply_event EXCEPT ![n] = TRUE]
        /\ consent' = [consent EXCEPT ![n] = IF answer = "yes" THEN @ \cup {l} ELSE @]
    BY <1>3 DEF SocketReply
  <2> HIDE DEF s
  <2>3. state'[n] = s /\ \A m \in Nodes : m # n => state'[m] = state[m]
    BY <1>1, <2>2
  <2> QED
    BY <1>1, <2>1, <2>2, <2>3
<1>13. /\ \A v \in Sockets : socket'[v].node = socket[v].node /\ socket'[v].conn = socket[v].conn
       /\ \A v \in Sockets : v # w => socket'[v].questions = socket[v].questions
       /\ socket'[w].questions = socket[w].questions \ {l}
  <2>1. socket' = [socket EXCEPT ![w].questions = socket[w].questions \ {l}]
    BY DEF SocketReply
  <2> QED
    BY <1>1, <2>1 DEF Socket
<1>15. ASSUME NEW m \in Nodes, m # n PROVE Agreed(m)'
  BY <1>3, <1>10, <1>12, <1>13, <1>15, Untouched DEF PInv, PagesKept, UserKept, Shown
<1>16. Agreed(n)'
  <2>1. \A v \in Sockets : socket'[v].node = n => Shown(v)' = {}
    <3>1. \A k \in Shown(w) : k = l
      BY <1>3, <1>4, <1>6, <1>7 DEF AskedForCall
    <3>2. ASSUME NEW v \in Sockets, v # w, socket[v].node = n PROVE Shown(v) = {}
      BY <1>2, <1>3, <3>2 DEF Shown, OnePage
    <3> QED
      BY <1>3, <1>13, <3>1, <3>2 DEF Shown
  <2>2. AskedForCall(n)'
    BY <2>1 DEF AskedForCall
  <2> QED
    BY <1>5, <1>11, <1>12, <2>2 DEF Agreed, AnsweredForCall
<1> QED
  BY <1>15, <1>16

-----------------------------------------------------------------------------
(* The one call. *)

LEMMA AgreedOnRequest ==
  ASSUME PInv, NEW c \in Calls, FollowRequested(c)
  PROVE  \A n \in Nodes : Agreed(n)'
<1>1. IInv /\ OneAtATime /\ TypeOK /\ call[c].follow = "sent"
  BY DEF PInv, OInv, IInv, FollowRequested
<1>2. PICK n \in Nodes : n = call[c].target
  BY <1>1, HandledIsUnderway
<1>3. /\ UNCHANGED <<reply_event, consent>>
      /\ \A d \in Calls : d # c => call'[d] = call[d]
      /\ call'[c].leader = call[c].leader /\ call'[c].target = n
      /\ \/ call'[c].follow = "answered" /\ UNCHANGED <<state, socket>>
         \/ /\ call'[c].follow = "spawned" /\ socket' = AskWaitersWoken(n)
            /\ state[n].role = "INDEPENDENT" /\ \A m \in Nodes : m # n => state'[m] = state[m]
            /\ state'[n].role = state[n].role
            /\ state'[n].user_response = state[n].user_response
  BY <1>1, <1>2, FollowRequestedDoes
<1>4. Pending(n) = {}
  <2>1. Pending(n) \subseteq {c}
    BY <1>1, HandledIsUnderway, OnePending
  <2> QED
    BY <1>1, <2>1 DEF Pending
<1>5. \A v \in Sockets : /\ socket'[v].node = socket[v].node /\ socket'[v].conn = socket[v].conn
                         /\ socket'[v].questions = socket[v].questions
  <2>1. ASSUME socket' = AskWaitersWoken(n), NEW v \in Sockets
        PROVE  socket'[v].questions = socket[v].questions
    <3>1. socket[v] \in Socket
      BY <1>1 DEF TypeOK
    <3> QED
      BY <2>1, <3>1 DEF AskWaitersWoken, Socket
  <2> QED
    BY <1>1, <1>3, <2>1, AskWoken
<1>7. CASE call'[c].follow = "answered" /\ UNCHANGED <<state, socket>>
  <2>1. \A m \in Nodes : PendingKept(m)
    BY <1>1, <1>3, <1>7 DEF PendingKept, Pending
  <2> QED
    BY <1>3, <1>7, <2>1, ElsewhereKeeps DEF SamePages
<1>8. CASE call'[c].follow = "spawned" /\ socket' = AskWaitersWoken(n)
  <2>1. ASSUME NEW m \in Nodes, m # n PROVE Agreed(m)'
    <3>1. PendingKept(m)
      BY <1>1, <1>2, <1>3, <2>1 DEF PendingKept, Pending
    <3> QED
      BY <1>3, <1>5, <1>8, <2>1, <3>1, Untouched DEF PInv, PagesKept, UserKept, Shown
  <2>2. Agreed(n)'
    <3>1. /\ ~reply_event[n] /\ state[n].user_response # "yes"
          /\ \A w \in Sockets : socket[w].node = n => Shown(w) = {}
      BY <1>3, <1>4, <1>8, NothingAsked DEF PInv
    <3>2. AskedForCall(n)'
      BY <1>5, <3>1 DEF AskedForCall, Shown
    <3>3. Pending(n)' \subseteq {c}
      BY <1>3, <1>4 DEF Pending
    <3> QED
      BY <1>3, <1>8, <3>1, <3>2, <3>3 DEF Agreed, AnsweredForCall
  <2> QED
    BY <2>1, <2>2
<1> QED
  BY <1>3, <1>7, <1>8

LEMMA AgreedOnResume ==
  ASSUME PInv, NEW c \in Calls, FollowResumes(c)
  PROVE  \A n \in Nodes : Agreed(n)'
<1>1. IInv /\ OneAtATime /\ TypeOK /\ call[c].follow = "woken"
  BY DEF PInv, OInv, IInv, FollowResumes
<1>2. PICK n \in Nodes : n = call[c].target
  BY <1>1, HandledIsUnderway DEF Handling
<1>3. Underway(c) /\ c \in Pending(n)
  BY <1>1, <1>2, HandledIsUnderway DEF Handling, Pending
<1>4. Pending(n) = {c} /\ ~cancel_event[n]
  BY <1>1, <1>3, OnePending, Alone DEF OneAtATime, Resetting
<1>5. /\ UNCHANGED <<socket, consent>>
      /\ reply_event' = [reply_event EXCEPT ![n] = FALSE]
      /\ \A d \in Calls : d # c => call'[d] = call[d]
      /\ call'[c].follow = "answered"
      /\ \A m \in Nodes : m # n => state'[m] = state[m]
      /\ \/ /\ state[n].user_response = "yes"
            /\ state'[n].role = "FOLLOWER" /\ state'[n].leaders_address = call[c].leader
            /\ state'[n].following_requested = state[n].following_requested
         \/ /\ state'[n].role = state[n].role
            /\ state'[n].user_response = "none" /\ ~state'[n].following_requested
  BY <1>1, <1>2, <1>4, FollowResumesDoes
<1>6. reply_event \in [Nodes -> BOOLEAN]
  BY <1>1 DEF TypeOK
<1>7. ASSUME NEW m \in Nodes, m # n PROVE Agreed(m)'
  <2>1. PendingKept(m)
    BY <1>2, <1>5, <1>7 DEF PendingKept, Pending
  <2> QED
    BY <1>5, <1>6, <1>7, <2>1, Untouched DEF PInv, PagesKept, UserKept, Shown
<1>8. Agreed(n)'
  <2>1. ~state[n].following_requested /\ state[n].role = "INDEPENDENT"
    BY <1>1, <1>2, <1>3 DEF PInv, OInv, AskedWhileFree, Handling, Agreed, AnsweredForCall
  <2>2. state[n].user_response = "yes" => call[c].leader \in consent[n]
    BY <1>4, <2>1 DEF PInv, Agreed, AnsweredForCall
  <2>3. AskedForCall(n)'
    BY <1>5, <2>1 DEF PInv, Agreed, AskedForCall, Shown
  <2>4. ~state'[n].following_requested /\ ~reply_event'[n]
    BY <1>5, <1>6, <2>1
  <2> QED
    BY <1>5, <2>1, <2>2, <2>3, <2>4 DEF Agreed, AnsweredForCall
<1> QED
  BY <1>7, <1>8

LEMMA AgreedOnAnswer ==
  ASSUME PInv, NEW c \in Calls, CollectAnswered(c)
  PROVE  \A n \in Nodes : Agreed(n)'
<1>1. /\ IInv /\ OneAtATime /\ call[c].follow = "answered" /\ Underway(c)
      /\ call \in [Calls -> Call] /\ state \in [Nodes -> NodeState]
  BY DEF PInv, OInv, IInv, TypeOK, CollectAnswered, Underway
<1>2. PICK l \in Nodes : l = call[c].leader
  BY <1>1, HandledIsUnderway
<1>3. /\ UNCHANGED <<socket, reply_event, consent>>
      /\ \A d \in Calls : call'[d].follow = call[d].follow /\ call'[d].leader = call[d].leader
                          /\ call'[d].target = call[d].target
  BY <1>1 DEF CollectAnswered, Call
<1>4. \A m \in Nodes : PendingKept(m)
  BY <1>3 DEF PendingKept, Pending
<1>5. CASE UNCHANGED state
  BY <1>3, <1>4, <1>5, ElsewhereKeeps DEF SamePages
<1>6. CASE state' = [state EXCEPT ![l] = [@ EXCEPT !.role = "LEADER",
                                                  !.followers_address = call[c].target]]
  <2>1. /\ \A m \in Nodes : m # l => state'[m] = state[m]
        /\ state'[l].role = "LEADER"
        /\ state'[l].following_requested = state[l].following_requested
    <3> DEFINE s == [state[l] EXCEPT !.role = "LEADER", !.followers_address = call[c].target]
    <3>1. s.role = "LEADER" /\ s.following_requested = state[l].following_requested
      BY <1>1 DEF NodeState
    <3>2. state' = [state EXCEPT ![l] = s]
      BY <1>6
    <3> HIDE DEF s
    <3> QED
      BY <1>1, <3>1, <3>2
  <2>2. ASSUME NEW m \in Nodes, m # l PROVE Agreed(m)'
    BY <1>3, <1>4, <2>1, <2>2, Untouched DEF PInv, PagesKept, UserKept, Shown
  <2>3. Pending(l) = {}
    <3>1. Pending(l) \subseteq {c}
      BY <1>1, OnePending
    <3> QED
      BY <1>1, <3>1 DEF Pending
  <2>4. ~state[l].following_requested
    BY <1>1, <2>3 DEF PInv, Agreed, AnsweredForCall, IInv, IndependentIsClean
  <2>5. ~reply_event[l] /\ \A w \in Sockets : socket[w].node = l => Shown(w) = {}
    BY <2>3, NothingAsked DEF PInv
  <2>6. AskedForCall(l)'
    BY <1>3, <2>5 DEF AskedForCall, Shown
  <2>7. Agreed(l)'
    BY <1>3, <2>1, <2>4, <2>5, <2>6 DEF Agreed, AnsweredForCall
  <2> QED
    BY <2>2, <2>7
<1> QED
  BY <1>2, <1>5, <1>6 DEF CollectAnswered

-----------------------------------------------------------------------------
(* The resets. *)

LEMMA AgreedOnReset ==
  ASSUME PInv, NEW n \in Nodes, LocalReset(n), UNCHANGED <<reply_event, socket>>,
         \A c \in Calls : ~Underway(c)
  PROVE  \A m \in Nodes : Agreed(m)'
<1>1. IInv /\ \A m \in Nodes : m # n => state'[m] = state[m] /\ consent'[m] = consent[m]
  BY LocalResetDoes DEF PInv, OInv
<1>2. \A m \in Nodes : PendingKept(m)
  BY <1>1, NobodyWoken DEF LocalReset
<1>3. ASSUME NEW m \in Nodes, m # n PROVE Agreed(m)'
  BY <1>1, <1>2, <1>3, Untouched DEF PInv, PagesKept, UserKept, Shown
<1>4. Agreed(n)'
  <2>1. /\ ~reply_event[n]
        /\ \A w \in Sockets : socket[w].node = n => Shown(w) = {}
    BY <1>1, NonePending, NothingAsked DEF PInv
  <2>2. /\ state'[n].role = "INDEPENDENT" /\ state'[n].user_response = "none"
        /\ ~state'[n].following_requested
    BY <1>1, LocalResetDoes
  <2>3. AskedForCall(n)'
    BY <2>1 DEF AskedForCall, Shown
  <2> QED
    BY <2>1, <2>2, <2>3 DEF Agreed, AnsweredForCall
<1> QED
  BY <1>3, <1>4

LEMMA AgreedOnResets ==
  ASSUME PInv, NEW r \in Resets,
         ResetFinish(r) \/ \E n \in Nodes : ResetStart(r, n) /\ Quiet
  PROVE  \A m \in Nodes : Agreed(m)'
<1>1. IInv /\ OneAtATime /\ Addressed
  BY DEF PInv, OInv, IInv
<1>2. CASE ResetFinish(r)
  <2>1. (\A c \in Calls : ~Underway(c)) /\ reset[r].node \in Nodes
    BY <1>1, <1>2 DEF ResetFinish, OneAtATime, Resetting, Addressed
  <2> QED
    BY <1>2, <2>1, AgreedOnReset DEF ResetFinish
<1>3. ASSUME NEW n \in Nodes, ResetStart(r, n), Quiet
      PROVE  \A m \in Nodes : Agreed(m)'
  <2>1. \A c \in Calls : ~Underway(c)
    BY <1>1, <1>3, QuietMeans
  <2>2. UNCHANGED <<reply_event, socket>> /\ (LocalReset(n) \/ UNCHANGED <<state, call, consent>>)
    BY <1>3 DEF ResetStart
  <2> QED
    BY <2>1, <2>2, AgreedOnReset, SamePending, ElsewhereKeeps DEF SamePages
<1> QED
  BY <1>2, <1>3

-----------------------------------------------------------------------------
LEMMA InitPInv == Init => PInv
<1> SUFFICES ASSUME Init PROVE PInv
  OBVIOUS
<1>1. /\ \A w \in Sockets : socket[w].questions = {}
      /\ \A n \in Nodes : state[n].role = "INDEPENDENT" /\ state[n].user_response = "none"
                          /\ ~state[n].following_requested /\ ~reply_event[n]
      /\ \A c \in Calls : call[c].follow = "none"
  BY DEF Init, InitialNodeState
<1>2. \A n \in Nodes : Agreed(n)
  BY <1>1 DEF Agreed, AskedForCall, AnsweredForCall, Pending, Shown
<1> QED
  BY <1>1, <1>2, InitOInv DEF PInv

LEMMA NextPInv == PInv /\ OnePage /\ [OrderlyNext]_vars => PInv'
<1> SUFFICES ASSUME PInv, OnePage, [OrderlyNext]_vars
             PROVE  \A n \in Nodes : Agreed(n)'
  BY NextOInv DEF PInv
<1>1. IInv' /\ IInv
  BY NextPreserves DEF PInv, OInv, OrderlyNext
<1>2. CASE UNCHANGED vars
  BY <1>1, <1>2, AgreedElsewhere
<1>3. CASE OrderlyNext
  <2>1. Next /\ (Begun' # Begun => Quiet)
    BY <1>3 DEF OrderlyNext
  <2>2. CASE Environment
    <3>1. \A r \in Resets, n \in Nodes : ResetStart(r, n) => Quiet
      BY <1>1, <2>1, BegunMeans
    <3>2. \A l \in Collectors : l \in Nodes
      BY CoordinationAssumption
    <3> QED
      BY <1>1, <2>2, <3>1, <3>2, AgreedElsewhere, AgreedOnOpenClose, AgreedOnResets DEF Environment
  <2>3. CASE UserAnswers
    BY <2>3, AgreedOnReply DEF UserAnswers
  <2>4. CASE \E c \in Calls : CallStep(c)
    BY <1>1, <2>4, AgreedElsewhere, AgreedOnRequest, AgreedOnResume, AgreedOnAnswer DEF CallStep
  <2>5. CASE \E w \in Sockets : SocketStep(w)
    BY <2>5, AgreedOnAsk
  <2>6. CASE \E r \in Resets : ResetStep(r)
    BY <1>1, <2>6, AgreedElsewhere, AgreedOnResets DEF ResetStep
  <2>7. CASE \E s \in Streams : StreamStep(s)
    BY <1>1, <2>7, AgreedElsewhere
  <2> QED
    BY <2>1, <2>2, <2>3, <2>4, <2>5, <2>6, <2>7 DEF Next
<1> QED
  BY <1>2, <1>3

\* The user of a node that follow_requested has made a follower said yes, on its page, to
\* that very leader, if no node has a second page with an older question to answer.
THEOREM FollowersAgreed == OrderlySpec /\ []OnePage => []FollowsOnlyWithConsent
<1>1. PInv => FollowsOnlyWithConsent
  BY DEF PInv, Agreed, FollowsOnlyWithConsent
<1> QED
  BY <1>1, InitPInv, NextPInv, PTL DEF OrderlySpec

=============================================================================
