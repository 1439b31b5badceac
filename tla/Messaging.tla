----------------------------- MODULE Messaging ------------------------------
(***************************************************************************)
(* The ZeroMQ messaging of pqnstack/network: a ROUTER process, instrument  *)
(* providers with a DEALER socket and a heartbeat, and clients with a REQ  *)
(* socket.  Processes may be killed and started again, connections may     *)
(* break and lose what is on its way.                                      *)
(*                                                                         *)
(* up[p] holds the packets from peer p to the router, from the send queue  *)
(* of p's socket to the router's recv; down[p] those of the way back.      *)
(***************************************************************************)
EXTENDS Naturals, Sequences

CONSTANTS
    Providers,  \* the instrument providers
    Clients,    \* the clients, one for each socket: Client() or a ProxyInstrument
    Router,     \* the router's name
    Nobody,     \* a name no process has
    Misnamed,   \* the peers configured with a wrong router_name
    Targets,    \* the names that clients address their packets to
    Requests,   \* the requests that clients make, of AllRequests
    Impatient,  \* the clients whose receive may time out
    Mortal,     \* the processes that may be killed: providers, Router
    Unreliable, \* the peers whose connection may break while the router runs
    MaxAsks,    \* bound: how many requests a client makes
    HighWater   \* the high-water mark of a provider's send queue (1000 in libzmq)

AllRequests == {"PING", "GET_DEVICES", "GET_DEVICE_STRUCTURE", "OPERATION",
                "GET_PARAMETER", "SET_PARAMETER", "INFO", "UNKNOWN"}

Peers == Providers \cup Clients

ASSUME MessagingAssumption ==
    /\ Providers \cap Clients = {}
    /\ Router \notin Peers /\ Nobody \notin Peers /\ Router # Nobody
    /\ Misnamed \subseteq Peers
    /\ Targets \subseteq Peers \cup {Router, Nobody}
    /\ Requests \subseteq AllRequests
    /\ Impatient \subseteq Clients
    /\ Mortal \subseteq Providers \cup {Router}
    /\ Unreliable \subseteq Peers
    /\ MaxAsks \in Nat
    /\ HighWater \in Nat \ {0}

VARIABLES
    running,   \* whether the router process runs
    providers, \* Router.providers: the names in the table; a peer's identity is its name
    clients,   \* Router.clients
    link,      \* whether a peer is connected to the router's socket
    up, down,  \* the packets on their way
    provider,  \* whether each provider's process runs
    client,    \* where each client is, and how many requests it has made
    executed,  \* history: how often each request has reached the instrument
    outcome,   \* history: what the client has been told of each request
    calm       \* history: whether nothing has been killed, has failed or was cut off

routerVars == <<running, providers, clients, calm>>
vars == <<running, providers, clients, link, up, down, provider, client,
          executed, outcome, calm>>

-----------------------------------------------------------------------------
(* Packets.  ask is history: the number of the client's request the packet  *)
(* belongs to, 0 for a registration.  The request of a reply is the one it  *)
(* answers.                                                                 *)

Intents == {"REGISTRATION", "REGISTRATION_ACK", "PING", "DATA", "CONTROL", "ERROR"}

Packet(intent, request, source, destination, ask) ==
    [intent |-> intent, request |-> request, source |-> source,
     destination |-> destination, ask |-> ask]

Packets ==
    [intent: Intents, request: AllRequests \cup {"REGISTER", "ACKNOWLEDGE", "ERROR"},
     source: Peers \cup {Router}, destination: Peers \cup {Router, Nobody},
     ask: 0..MaxAsks]

IntentOf(r) ==
    CASE r = "PING" -> "PING"
      [] r \in {"GET_DEVICES", "GET_DEVICE_STRUCTURE", "UNKNOWN"} -> "DATA"
      [] OTHER -> "CONTROL"

Registration(p) ==
    Packet("REGISTRATION", "REGISTER", p, IF p \in Misnamed THEN Nobody ELSE Router, 0)

Ask(c, target, r, n) == Packet(IntentOf(r), r, c, target, n)

ReplyTo(m) == Packet(m.intent, m.request, m.destination, m.source, m.ask)

ErrorFrom(sender, destination, m) == Packet("ERROR", "ERROR", sender, destination, m.ask)

TypeOK ==
    /\ running \in BOOLEAN
    /\ providers \subseteq Providers
    /\ clients \subseteq Clients
    /\ link \in [Peers -> BOOLEAN]
    /\ up \in [Peers -> Seq(Packets)]
    /\ down \in [Peers -> Seq(Packets)]
    /\ provider \in [Providers -> {"off", "running"}]
    /\ client \in [Clients ->
          [pc: {"off", "registering", "ready", "asking", "timedout", "refused", "closed"},
           asked: 0..MaxAsks]]
    /\ executed \in [Clients -> [1..MaxAsks -> Nat]]
    /\ outcome \in [Clients -> [1..MaxAsks -> {"none", "ok", "error", "timeout"}]]
    /\ calm \in BOOLEAN

Init ==
    /\ running = FALSE
    /\ providers = {}
    /\ clients = {}
    /\ link = [p \in Peers |-> FALSE]
    /\ up = [p \in Peers |-> <<>>]
    /\ down = [p \in Peers |-> <<>>]
    /\ provider = [p \in Providers |-> "off"]
    /\ client = [c \in Clients |-> [pc |-> "off", asked |-> 0]]
    /\ executed = [c \in Clients |-> [n \in 1..MaxAsks |-> 0]]
    /\ outcome = [c \in Clients |-> [n \in 1..MaxAsks |-> "none"]]
    /\ calm = TRUE

-----------------------------------------------------------------------------
(* ZeroMQ. *)

\* Whether a process holds the socket of peer p open.
Open(p) ==
    IF p \in Providers THEN provider[p] = "running"
                       ELSE client[p].pc \notin {"off", "closed"}

\* A connecting socket connects, and connects again after a break, by itself; a
\* closed one lingers until its packets are sent.
Connected(p) ==
    /\ running
    /\ ~link[p]
    /\ Open(p) \/ up[p] # <<>>
    /\ link' = [link EXCEPT ![p] = TRUE]
    /\ UNCHANGED <<routerVars, up, down, provider, client, executed, outcome>>

Suffixes(s) == {SubSeq(s, i, Len(s)) : i \in 1..Len(s) + 1}
Prefixes(s) == {SubSeq(s, 1, i) : i \in 0..Len(s)}

\* What is on its way is lost; what still waits in a queue of the peer is not.
ConnectionLost(p) ==
    /\ link[p]
    /\ ~running \/ p \in Unreliable
    /\ link' = [link EXCEPT ![p] = FALSE]
    /\ \E kept \in Suffixes(up[p]) : up' = [up EXCEPT ![p] = kept]
    /\ \E kept \in Prefixes(down[p]) : down' = [down EXCEPT ![p] = kept]
    /\ calm' = FALSE
    /\ UNCHANGED <<running, providers, clients, provider, client,
                   executed, outcome>>

\* A ROUTER socket drops what it cannot deliver.
SendTo(p, m) ==
    down' = IF link[p] /\ Open(p) THEN [down EXCEPT ![p] = Append(@, m)] ELSE down

-----------------------------------------------------------------------------
(* Router *)

RouterUnchanged == UNCHANGED <<running, link, provider, client, executed,
                               outcome, calm>>

\* A new process finds no connection of the old one.
RouterStart ==
    /\ ~running
    /\ \A p \in Peers : ~link[p]
    /\ running' = TRUE
    /\ UNCHANGED <<providers, clients, link, up, down, provider, client,
                   executed, outcome, calm>>

RouterKilled ==
    /\ Router \in Mortal
    /\ running
    /\ running' = FALSE
    /\ providers' = {}
    /\ clients' = {}
    /\ calm' = FALSE
    /\ UNCHANGED <<link, up, down, provider, client, executed, outcome>>

Listen(p) ==
    /\ running
    /\ link[p]
    /\ up[p] # <<>>
    /\ up' = [up EXCEPT ![p] = Tail(@)]

\* Mutant: every element is recorded as a provider.
RegisteredAsProvider(p) ==
    LET m == Head(up[p]) IN
    /\ Listen(p)
    /\ m.intent = "REGISTRATION"
    /\ providers' = providers \cup {m.source}
    /\ SendTo(p, Packet("REGISTRATION_ACK", "ACKNOWLEDGE", Router, p, m.ask))
    /\ UNCHANGED clients
    /\ RouterUnchanged

\* The class of the network element is the payload of its registration.
HandleRegistration(p) ==
    LET m == Head(up[p]) IN
    /\ Listen(p)
    /\ m.intent = "REGISTRATION"
    /\ \/ /\ m.destination # Router
          /\ SendTo(p, ErrorFrom(Router, p, m))
          /\ UNCHANGED <<providers, clients>>
       \/ /\ m.destination = Router
          /\ providers' = providers \cup ({m.source} \cap Providers)
          /\ clients' = clients \cup ({m.source} \cap Clients)
          /\ SendTo(p, Packet("REGISTRATION_ACK", "ACKNOWLEDGE", Router, p, m.ask))
    /\ RouterUnchanged

\* Mutant: a packet for an unknown destination is dropped.
PassOrDrop(p) ==
    LET m == Head(up[p]) IN
    /\ Listen(p)
    /\ m.intent # "REGISTRATION"
    /\ \/ /\ m.destination \notin providers \cup clients
          /\ UNCHANGED down
       \/ /\ m.destination \in providers \cup clients
          /\ SendTo(m.destination, m)
    /\ UNCHANGED <<providers, clients>>
    /\ RouterUnchanged

HandlePassPacket(p) ==
    LET m == Head(up[p]) IN
    /\ Listen(p)
    /\ m.intent # "REGISTRATION"
    /\ \/ /\ m.destination = Router
          /\ UNCHANGED down
       \/ /\ m.destination \in providers \cup clients
          /\ SendTo(m.destination, m)
       \/ /\ m.destination \notin providers \cup clients \cup {Router}
          /\ SendTo(p, ErrorFrom(Router, p, m))
    /\ UNCHANGED <<providers, clients>>
    /\ RouterUnchanged

-----------------------------------------------------------------------------
(* InstrumentProvider *)

ProviderUnchanged == UNCHANGED <<routerVars, client, outcome>>

\* The process starts when the connection of its predecessor is used up or gone;
\* the first beat is sent and nothing is waited for.
ProviderStart(p) ==
    /\ provider[p] = "off"
    /\ link[p] => up[p] = <<>>
    /\ provider' = [provider EXCEPT ![p] = "running"]
    /\ link' = [link EXCEPT ![p] = FALSE]
    /\ up' = [up EXCEPT ![p] = <<Registration(p)>>]
    /\ UNCHANGED <<down, executed>>
    /\ ProviderUnchanged

\* Mutant: the loop goes on without a beat.
BeatForgotten(p) == provider[p] = "running" /\ UNCHANGED vars

\* The receive has timed out; the send blocks while the queue is full.
Beat(p) ==
    /\ provider[p] = "running"
    /\ down[p] = <<>>
    /\ Len(up[p]) < HighWater
    /\ up' = [up EXCEPT ![p] = Append(@, Registration(p))]
    /\ UNCHANGED <<link, down, provider, executed>>
    /\ ProviderUnchanged

ProviderListens(p) ==
    /\ provider[p] = "running"
    /\ down[p] # <<>>
    /\ down' = [down EXCEPT ![p] = Tail(@)]

\* The acknowledgement of a beat, an error from the router, or a DATA packet whose
\* request no case matches.
ProviderIgnores(p) ==
    LET m == Head(down[p]) IN
    /\ ProviderListens(p)
    /\ m.intent \in {"REGISTRATION_ACK", "ERROR"} \/ m.request = "UNKNOWN"
    /\ UNCHANGED <<link, up, provider, executed>>
    /\ ProviderUnchanged

Execute(m) == executed' = [executed EXCEPT ![m.source][m.ask] = @ + 1]

\* The request is done and its result sent.
ProviderAnswers(p) ==
    LET m == Head(down[p]) IN
    /\ ProviderListens(p)
    /\ m.request \in AllRequests \ {"UNKNOWN"}
    /\ Execute(m)
    /\ up' = [up EXCEPT ![p] = Append(@, ReplyTo(m))]
    /\ UNCHANGED <<link, provider>>
    /\ ProviderUnchanged

\* No such instrument, operation or parameter, or a malformed request: nothing is done.
ProviderRejects(p) ==
    LET m == Head(down[p]) IN
    /\ ProviderListens(p)
    /\ m.request \in AllRequests \ {"PING", "GET_DEVICES", "UNKNOWN"}
    /\ up' = [up EXCEPT ![p] = Append(@, ErrorFrom(p, m.source, m))]
    /\ UNCHANGED <<link, provider, executed>>
    /\ ProviderUnchanged

\* The instrument raises: any exception of an operation, an AttributeError of a
\* parameter.
InstrumentRaises(p) ==
    LET m == Head(down[p]) IN
    /\ ProviderListens(p)
    /\ m.request \in {"OPERATION", "GET_PARAMETER", "SET_PARAMETER"}
    /\ Execute(m)
    /\ up' = [up EXCEPT ![p] = Append(@, ErrorFrom(p, m.source, m))]
    /\ UNCHANGED <<link, provider>>
    /\ ProviderUnchanged

\* Any other exception of a parameter, or of info, ends the provider; its socket is
\* closed and lingers.
ProviderFails(p) ==
    LET m == Head(down[p]) IN
    /\ provider[p] = "running"
    /\ down[p] # <<>>
    /\ m.request \in {"GET_PARAMETER", "SET_PARAMETER", "INFO"}
    /\ Execute(m)
    /\ provider' = [provider EXCEPT ![p] = "off"]
    /\ down' = [down EXCEPT ![p] = <<>>]
    /\ calm' = FALSE
    /\ UNCHANGED <<running, providers, clients, link, up, client, outcome>>

ProviderKilled(p) ==
    /\ p \in Mortal
    /\ provider[p] = "running"
    /\ provider' = [provider EXCEPT ![p] = "off"]
    /\ down' = [down EXCEPT ![p] = <<>>]
    /\ \E sent \in IF link[p] THEN Prefixes(up[p]) ELSE {<<>>} :
           up' = [up EXCEPT ![p] = sent]
    /\ calm' = FALSE
    /\ UNCHANGED <<running, providers, clients, link, executed, client, outcome>>

-----------------------------------------------------------------------------
(* ClientBase *)

ClientUnchanged == UNCHANGED <<routerVars, link, provider, executed>>

Connect(c) ==
    /\ client[c].pc = "off"
    /\ client' = [client EXCEPT ![c].pc = "registering"]
    /\ up' = [up EXCEPT ![c] = Append(@, Registration(c))]
    /\ UNCHANGED <<down, outcome>>
    /\ ClientUnchanged

ClientReceives(c) ==
    /\ down[c] # <<>>
    /\ down' = [down EXCEPT ![c] = Tail(@)]

Acknowledged(c) ==
    /\ client[c].pc = "registering"
    /\ ClientReceives(c)
    /\ Head(down[c]).intent = "REGISTRATION_ACK"
    /\ client' = [client EXCEPT ![c].pc = "ready"]
    /\ UNCHANGED <<up, outcome>>
    /\ ClientUnchanged

Close(c) ==
    /\ client' = [client EXCEPT ![c].pc = "closed"]
    /\ down' = [down EXCEPT ![c] = <<>>]

\* connect() raises on a timeout, an ERROR or anything else than the acknowledgement.
RegistrationFails(c) ==
    /\ client[c].pc = "registering"
    /\ \/ c \in Impatient
       \/ down[c] # <<>> /\ Head(down[c]).intent # "REGISTRATION_ACK"
    /\ Close(c)
    /\ UNCHANGED <<up, outcome>>
    /\ ClientUnchanged

\* Mutant: a client that timed out asks again on the same socket.
ClientAsksAgain(c, target, r) ==
    LET n == client[c].asked + 1 IN
    /\ client[c].pc \in {"ready", "timedout"}
    /\ n <= MaxAsks
    /\ target # c
    /\ client' = [client EXCEPT ![c] = [pc |-> "asking", asked |-> n]]
    /\ up' = [up EXCEPT ![c] = Append(@, Ask(c, target, r, n))]
    /\ \E arriving \in Suffixes(down[c]) : down' = [down EXCEPT ![c] = arriving]
    /\ UNCHANGED outcome
    /\ ClientUnchanged

\* A REQ socket throws away the packets that have arrived before it sends.
ClientAsks(c, target, r) ==
    LET n == client[c].asked + 1 IN
    /\ client[c].pc = "ready"
    /\ n <= MaxAsks
    /\ target # c
    /\ client' = [client EXCEPT ![c] = [pc |-> "asking", asked |-> n]]
    /\ up' = [up EXCEPT ![c] = Append(@, Ask(c, target, r, n))]
    /\ \E arriving \in Suffixes(down[c]) : down' = [down EXCEPT ![c] = arriving]
    /\ UNCHANGED outcome
    /\ ClientUnchanged

\* An ERROR is raised as a PacketError; anything else is returned as the reply.
Answered(c) ==
    /\ client[c].pc = "asking"
    /\ ClientReceives(c)
    /\ client' = [client EXCEPT ![c].pc = "ready"]
    /\ outcome' = [outcome EXCEPT ![c][client[c].asked] =
                     IF Head(down[c]).intent = "ERROR" THEN "error" ELSE "ok"]
    /\ UNCHANGED up
    /\ ClientUnchanged

\* Mutant: the request is sent once more.
AskRetried(c) ==
    /\ c \in Impatient
    /\ client[c].pc = "asking"
    /\ \E target \in Targets, r \in Requests :
           up' = [up EXCEPT ![c] = Append(@, Ask(c, target, r, client[c].asked))]
    /\ UNCHANGED <<client, down, outcome>>
    /\ ClientUnchanged

AskTimesOut(c) ==
    /\ c \in Impatient
    /\ client[c].pc = "asking"
    /\ client' = [client EXCEPT ![c].pc = "timedout"]
    /\ outcome' = [outcome EXCEPT ![c][client[c].asked] = "timeout"]
    /\ UNCHANGED <<up, down>>
    /\ ClientUnchanged

\* A REQ socket that still owes a recv does not send: ask() raises a ZMQError.
AskRefused(c) ==
    /\ client[c].pc = "timedout"
    /\ client' = [client EXCEPT ![c].pc = "refused"]
    /\ UNCHANGED <<up, down, outcome>>
    /\ ClientUnchanged

Disconnect(c) ==
    /\ client[c].pc \in {"ready", "timedout", "refused"}
    /\ Close(c)
    /\ UNCHANGED <<up, outcome>>
    /\ ClientUnchanged

-----------------------------------------------------------------------------
PeerStep(p) ==
    \/ Connected(p)
    \/ ~running /\ ConnectionLost(p)
    \/ HandleRegistration(p)
    \/ HandlePassPacket(p)

ProviderHandles(p) ==
    \/ ProviderIgnores(p)
    \/ ProviderAnswers(p)
    \/ ProviderRejects(p)
    \/ InstrumentRaises(p)
    \/ ProviderFails(p)

ClientStep(c) == Acknowledged(c) \/ RegistrationFails(c) \/ Answered(c) \/ AskTimesOut(c)

Next ==
    \/ RouterStart
    \/ RouterKilled
    \/ \E p \in Peers : PeerStep(p) \/ ConnectionLost(p)
    \/ \E p \in Providers :
          ProviderStart(p) \/ Beat(p) \/ ProviderHandles(p) \/ ProviderKilled(p)
    \/ \E c \in Clients : Connect(c) \/ ClientStep(c) \/ AskRefused(c) \/ Disconnect(c)
    \/ \E c \in Clients, target \in Targets, r \in Requests : ClientAsks(c, target, r)

Spec == Init /\ [][Next]_vars

\* Sockets connect and deliver, the router and the providers serve what arrives, a
\* provider's receive times out again and again, a client's recv returns.  Nobody
\* has to start, stop, kill or ask.
Fairness ==
    /\ \A p \in Peers : WF_vars(PeerStep(p))
    /\ \A p \in Providers : WF_vars(Beat(p)) /\ WF_vars(ProviderHandles(p))
    /\ \A c \in Clients : WF_vars(ClientStep(c))

FairSpec == Spec /\ Fairness

-----------------------------------------------------------------------------
\* What a client that waits receives first is the acknowledgement of its
\* registration, or the answer to the very request it waits for: the strict
\* alternation of a REQ socket is what keeps a late answer from being taken for
\* that to a later request.
OwnReply ==
    \A c \in Clients :
        client[c].pc \in {"registering", "asking"} /\ down[c] # <<>> =>
            LET m == Head(down[c]) IN
            /\ m.ask = client[c].asked
            /\ m.source \in Providers \cup {Router}

\* Whatever is lost, killed or restarted, a request is a remote call: performed at
\* most once, and answered "ok" only when it has been performed.
Call == INSTANCE RemoteCall WITH
    Callers <- Clients, MaxCalls <- MaxAsks,
    issued <- [c \in Clients |-> client[c].asked],
    performed <- executed

ImplementsRemoteCall == Call!Spec

\* "If the router goes offline, the provider can reconnect to the router
\* automatically": a provider is registered again, however often the router or
\* the provider itself was killed, as long as both run now.
ProviderReconnects ==
    \A p \in Providers \ Misnamed :
        running /\ provider[p] = "running"
            ~> p \in providers \/ ~running \/ provider[p] = "off"

\* As long as nothing fails, every request to a provider is answered, also to one
\* that has not registered, that does not exist or that rejects it.  A packet for
\* the router itself, or a DATA request that no case of the provider matches, is
\* read and forgotten: nothing is promised for those.
EveryAskIsAnswered ==
    \A c \in Clients :
        /\ calm /\ client[c].pc = "asking" /\ up[c] # <<>>
        /\ Head(up[c]).destination \in Providers \cup {Nobody}
        /\ Head(up[c]).request # "UNKNOWN"
        ~> client[c].pc # "asking" \/ ~calm

=============================================================================
