-------------------------- MODULE MessagingProofs ---------------------------
(***************************************************************************)
(* Requests to instruments are remote calls performed at most once, for    *)
(* any number of providers, clients and requests, whatever is killed, lost *)
(* or timed out.                                                           *)
(***************************************************************************)
EXTENDS Messaging, SequenceTheorems, TLAPS

\* All of the code addresses providers, the router or a name nobody has; a client that
\* were sent a request by another one would take it for its reply.
NoClientIsTarget == Targets \cap Clients = {}

-----------------------------------------------------------------------------
(* The exchange of a client: its registration or request, on its way to     *)
(* the router or a provider, and then what comes back.                      *)

Of(c, m) == m.source = c \/ m.destination = c

PacketsOf(s) == {s[i] : i \in 1..Len(s)}

Has(c, s) == \E m \in PacketsOf(s) : Of(c, m)

Once(c, s) == \A i, j \in 1..Len(s) : Of(c, s[i]) /\ Of(c, s[j]) => i = j

\* A client has one packet under way at most, wherever that is.
OnePacket(c) ==
    /\ \A p \in Peers : Once(c, up[p]) /\ Once(c, down[p])
    /\ \A p, q \in Peers :
          /\ Has(c, up[p]) /\ Has(c, up[q]) => p = q
          /\ Has(c, down[p]) /\ Has(c, down[q]) => p = q
          /\ ~(Has(c, up[p]) /\ Has(c, down[q]))

\* The packet belongs to the request the client has made last, which it has not been
\* told the result of.
Pending(c, m) ==
    /\ client[c].pc \notin {"off", "ready"}
    /\ m.ask = client[c].asked
    /\ m.ask > 0 => outcome[c][m.ask] \in {"none", "timeout"}

\* A request that has still to be performed.
Request(c, m) ==
    /\ m.source = c
    /\ m.intent # "REGISTRATION"
    /\ m.request \in AllRequests
    /\ m.ask > 0
    /\ executed[c][m.ask] = 0

\* An answer other than an error is that of a request that was performed once.
Answer(c, m) ==
    /\ m.destination = c
    /\ m.ask > 0 /\ m.intent # "ERROR" => executed[c][m.ask] = 1

FromClient(c, m) ==
    /\ Pending(c, m)
    /\ m.destination \notin Clients
    /\ m = Registration(c) \/ Request(c, m)

FromProvider(p, m) ==
    \/ m = Registration(p)
    \/ /\ m.source = p
       /\ m.intent # "REGISTRATION"
       /\ \E c \in Clients : Pending(c, m) /\ Answer(c, m)

ToClient(c, m) ==
    /\ Pending(c, m)
    /\ Answer(c, m)
    /\ m.source \in Providers \cup {Router}

ToProvider(p, m) ==
    /\ m.destination = p
    /\ \/ m.source = Router /\ m.request \in {"ACKNOWLEDGE", "ERROR"}
       \/ \E c \in Clients : Pending(c, m) /\ Request(c, m)

Addressed ==
    /\ \A c \in Clients :
          /\ \A m \in PacketsOf(up[c]) : FromClient(c, m)
          /\ \A m \in PacketsOf(down[c]) : ToClient(c, m)
    /\ \A p \in Providers :
          /\ \A m \in PacketsOf(up[p]) : FromProvider(p, m)
          /\ \A m \in PacketsOf(down[p]) : ToProvider(p, m)

\* What a client has been told, and what has been done for it.
Told(c) ==
    /\ client[c].pc \in {"off", "registering"} => client[c].asked = 0
    /\ client[c].pc = "asking" =>
          client[c].asked > 0 /\ outcome[c][client[c].asked] = "none"
    /\ client[c].pc = "ready" /\ client[c].asked > 0 =>
          outcome[c][client[c].asked] # "none"
    /\ \A n \in 1..MaxAsks : n > client[c].asked =>
          outcome[c][n] = "none" /\ executed[c][n] = 0

ClientState ==
    [pc: {"off", "registering", "ready", "asking", "timedout", "refused", "closed"},
     asked: 0..MaxAsks]

IInv ==
    /\ TypeOK
    /\ \A c \in Clients : OnePacket(c) /\ Told(c)
    /\ Addressed

-----------------------------------------------------------------------------
(* What taking a packet from a queue, putting one into it and losing some   *)
(* of it do to the packets of a client.                                     *)

LEMMA Taken ==
    ASSUME NEW s \in Seq(Packets), s # <<>>
    PROVE  /\ Head(s) \in Packets /\ Head(s) \in PacketsOf(s)
           /\ Tail(s) \in Seq(Packets) /\ PacketsOf(Tail(s)) \subseteq PacketsOf(s)
           /\ \A c : Once(c, s) =>
                 Once(c, Tail(s)) /\ (Of(c, Head(s)) => ~Has(c, Tail(s)))
<1>1. /\ Len(s) \in Nat \ {0}
      /\ s \in [1..Len(s) -> Packets]
      /\ Head(s) = s[1]
  BY EmptySeq, LenProperties
<1>2. /\ Tail(s) \in Seq(Packets)
      /\ Len(Tail(s)) = Len(s) - 1
      /\ \A i \in 1..Len(Tail(s)) : Tail(s)[i] = s[i + 1]
  BY HeadTailProperties
<1>3. \A i \in 1..Len(Tail(s)) : i + 1 \in 1..Len(s) /\ i + 1 # 1
  BY <1>1, <1>2, SMT
<1>4. Head(s) \in Packets /\ Head(s) \in PacketsOf(s)
  BY <1>1, 1 \in 1..Len(s) DEF PacketsOf
<1>5. PacketsOf(Tail(s)) \subseteq PacketsOf(s)
  BY <1>2, <1>3 DEF PacketsOf
<1>6. ASSUME NEW c, Once(c, s)
      PROVE  Once(c, Tail(s)) /\ (Of(c, Head(s)) => ~Has(c, Tail(s)))
  <2>1. Once(c, Tail(s))
    <3> SUFFICES ASSUME NEW i \in 1..Len(Tail(s)), NEW j \in 1..Len(Tail(s)),
                        Of(c, Tail(s)[i]), Of(c, Tail(s)[j])
                 PROVE  i = j
      BY DEF Once
    <3>1. i + 1 \in 1..Len(s) /\ j + 1 \in 1..Len(s)
      BY <1>3
    <3>2. Of(c, s[i + 1]) /\ Of(c, s[j + 1])
      BY <1>2
    <3>3. i + 1 = j + 1
      BY <1>6, <3>1, <3>2 DEF Once
    <3> QED
      BY <3>3, SMT
  <2>2. ASSUME Of(c, Head(s)), Has(c, Tail(s))
        PROVE  FALSE
    <3>1. PICK i \in 1..Len(Tail(s)) : Of(c, Tail(s)[i])
      BY <2>2 DEF Has, PacketsOf
    <3>2. i + 1 \in 1..Len(s) /\ i + 1 # 1 /\ Of(c, s[i + 1])
      BY <1>2, <1>3, <3>1
    <3>3. 1 \in 1..Len(s) /\ Of(c, s[1])
      BY <1>1, <2>2, SMT
    <3> QED
      BY <1>6, <3>2, <3>3 DEF Once
  <2> QED
    BY <2>1, <2>2
<1> QED
  BY <1>2, <1>4, <1>5, <1>6

LEMMA Put ==
    ASSUME NEW s \in Seq(Packets), NEW m \in Packets
    PROVE  /\ Append(s, m) \in Seq(Packets)
           /\ PacketsOf(Append(s, m)) = PacketsOf(s) \cup {m}
           /\ \A c : Once(c, s) /\ (Of(c, m) => ~Has(c, s)) => Once(c, Append(s, m))
<1> DEFINE t == Append(s, m)
<1>1. /\ Len(s) \in Nat
      /\ t \in Seq(Packets)
      /\ Len(t) = Len(s) + 1
      /\ \A i \in 1..Len(s) : t[i] = s[i]
      /\ t[Len(s) + 1] = m
  BY AppendProperties, LenProperties
<1> HIDE DEF t
<1>2. 1..Len(t) = 1..Len(s) \cup {Len(s) + 1}
  BY <1>1, SMT
<1>3. PacketsOf(t) = PacketsOf(s) \cup {m}
  BY <1>1, <1>2 DEF PacketsOf
<1>4. ASSUME NEW c, Once(c, s), Of(c, m) => ~Has(c, s)
      PROVE  Once(c, t)
  <2> SUFFICES ASSUME NEW i \in 1..Len(t), NEW j \in 1..Len(t), Of(c, t[i]), Of(c, t[j])
               PROVE  i = j
    BY DEF Once
  <2>1. ASSUME Of(c, m), NEW k \in 1..Len(s), Of(c, t[k])
        PROVE  FALSE
    BY <1>1, <1>4, <2>1 DEF Has, PacketsOf
  <2>2. CASE i \in 1..Len(s) /\ j \in 1..Len(s)
    BY <1>1, <1>4, <2>2 DEF Once
  <2>3. CASE i = Len(s) + 1 \/ j = Len(s) + 1
    BY <1>1, <1>2, <2>1, <2>3
  <2> QED
    BY <1>2, <2>2, <2>3
<1> QED
  BY <1>1, <1>3, <1>4 DEF t

LEMMA Lost ==
    ASSUME NEW s \in Seq(Packets), NEW t \in Suffixes(s) \cup Prefixes(s)
    PROVE  /\ t \in Seq(Packets)
           /\ PacketsOf(t) \subseteq PacketsOf(s)
           /\ \A c : Once(c, s) => Once(c, t)
<1>1. Len(s) \in Nat /\ s \in [1..Len(s) -> Packets]
  BY LenProperties
<1>2. PICK a \in 1..Len(s) + 1, b \in 0..Len(s) : t = SubSeq(s, a, b)
  <2>1. CASE t \in Suffixes(s)
    BY <1>1, <2>1, Len(s) \in 0..Len(s) DEF Suffixes
  <2>2. CASE t \in Prefixes(s)
    BY <1>1, <2>2, 1 \in 1..Len(s) + 1 DEF Prefixes
  <2> QED
    BY <2>1, <2>2
<1>3. a \in Int /\ b \in Int /\ \A i \in a..b : i \in 1..Len(s) /\ s[i] \in Packets
  BY <1>1, SMT
<1>4. /\ t \in Seq(Packets)
      /\ Len(t) = IF a <= b THEN b - a + 1 ELSE 0
      /\ \A i \in 1..b - a + 1 : t[i] = s[a + i - 1]
  BY <1>2, <1>3, SubSeqProperties
<1>5. \A i \in 1..Len(t) : a + i - 1 \in 1..Len(s) /\ t[i] = s[a + i - 1]
  BY <1>1, <1>3, <1>4, SMT
<1>6. PacketsOf(t) \subseteq PacketsOf(s)
  BY <1>5 DEF PacketsOf
<1>7. ASSUME NEW c, Once(c, s), NEW i \in 1..Len(t), NEW j \in 1..Len(t),
             Of(c, t[i]), Of(c, t[j])
      PROVE  i = j
  <2>1. a + i - 1 = a + j - 1
    BY <1>5, <1>7 DEF Once
  <2> QED
    BY <1>3, <2>1, SMT
<1> QED
  BY <1>4, <1>6, <1>7 DEF Once

-----------------------------------------------------------------------------
(* Which packets a step may leave as they are. *)

\* A step does not disturb the packets of client c.
Kept(c) ==
    /\ client'[c].asked = client[c].asked
    /\ client[c].pc \notin {"off", "ready"} => client'[c].pc \notin {"off", "ready"}
    /\ executed'[c] = executed[c]
    /\ \A n \in 1..MaxAsks :
          outcome[c][n] \in {"none", "timeout"} => outcome'[c][n] \in {"none", "timeout"}

UpFits(p, m) ==
    /\ p \in Clients => FromClient(p, m)
    /\ p \in Providers => FromProvider(p, m)

DownFits(p, m) ==
    /\ p \in Clients => ToClient(p, m)
    /\ p \in Providers => ToProvider(p, m)

LEMMA KeptPacket ==
    ASSUME IInv, NEW c \in Clients, Kept(c), NEW m \in Packets
    PROVE  /\ Pending(c, m) => Pending(c, m)'
           /\ Request(c, m) => Request(c, m)'
           /\ Answer(c, m) => Answer(c, m)'
<1>1. m.ask \in 0..MaxAsks /\ (m.ask > 0 => m.ask \in 1..MaxAsks)
  BY MessagingAssumption, SMT DEF Packets
<1> QED
  BY <1>1 DEF Kept, Pending, Request, Answer

LEMMA FittingPackets ==
    ASSUME IInv, NEW p \in Peers
    PROVE  /\ up[p] \in Seq(Packets) /\ down[p] \in Seq(Packets)
           /\ \A m \in PacketsOf(up[p]) : m \in Packets /\ UpFits(p, m)
           /\ \A m \in PacketsOf(down[p]) : m \in Packets /\ DownFits(p, m)
<1>1. up[p] \in Seq(Packets) /\ down[p] \in Seq(Packets)
  BY DEF IInv, TypeOK
<1>2. \A s \in Seq(Packets) : \A m \in PacketsOf(s) : m \in Packets
  BY LenProperties DEF PacketsOf
<1> QED
  BY <1>1, <1>2 DEF IInv, Addressed, UpFits, DownFits

\* The invariant holds after a step if every packet is an old one that is undisturbed,
\* or fits.
LEMMA Preserved ==
    ASSUME IInv, TypeOK', \A c \in Clients : OnePacket(c)' /\ Told(c)',
           \A p \in Peers : \A m \in PacketsOf(up'[p]) :
              \/ m \in PacketsOf(up[p]) /\ \A c \in Clients : Of(c, m) => Kept(c)
              \/ UpFits(p, m)',
           \A p \in Peers : \A m \in PacketsOf(down'[p]) :
              \/ m \in PacketsOf(down[p]) /\ \A c \in Clients : Of(c, m) => Kept(c)
              \/ DownFits(p, m)'
    PROVE  IInv'
<1>1. ASSUME NEW c \in Clients, NEW m \in PacketsOf(up'[c])
      PROVE  FromClient(c, m)'
  <2>1. c \in Peers
    BY DEF Peers
  <2>2. CASE UpFits(c, m)'
    BY <2>2 DEF UpFits
  <2>3. CASE m \in PacketsOf(up[c]) /\ \A d \in Clients : Of(d, m) => Kept(d)
    <3>1. m \in Packets /\ FromClient(c, m)
      BY <2>1, <2>3, FittingPackets DEF UpFits
    <3>2. Of(c, m)
      BY <3>1 DEF FromClient, Request, Registration, Packet, Of
    <3> QED
      BY <2>3, <3>1, <3>2, KeptPacket DEF FromClient
  <2> QED
    BY <1>1, <2>1, <2>2, <2>3
<1>2. ASSUME NEW c \in Clients, NEW m \in PacketsOf(down'[c])
      PROVE  ToClient(c, m)'
  <2>1. c \in Peers
    BY DEF Peers
  <2>2. CASE DownFits(c, m)'
    BY <2>2 DEF DownFits
  <2>3. CASE m \in PacketsOf(down[c]) /\ \A d \in Clients : Of(d, m) => Kept(d)
    <3>1. m \in Packets /\ ToClient(c, m)
      BY <2>1, <2>3, FittingPackets DEF DownFits
    <3>2. Of(c, m)
      BY <3>1 DEF ToClient, Answer, Of
    <3> QED
      BY <2>3, <3>1, <3>2, KeptPacket DEF ToClient
  <2> QED
    BY <1>2, <2>1, <2>2, <2>3
<1>3. ASSUME NEW p \in Providers, NEW m \in PacketsOf(up'[p])
      PROVE  FromProvider(p, m)'
  <2>1. p \in Peers
    BY DEF Peers
  <2>2. CASE UpFits(p, m)'
    BY <2>2 DEF UpFits
  <2>3. CASE m \in PacketsOf(up[p]) /\ \A d \in Clients : Of(d, m) => Kept(d)
    <3>1. m \in Packets /\ FromProvider(p, m)
      BY <2>1, <2>3, FittingPackets DEF UpFits
    <3>2. ASSUME NEW c \in Clients, Pending(c, m), Answer(c, m)
          PROVE  Pending(c, m)' /\ Answer(c, m)'
      BY <2>3, <3>1, <3>2, KeptPacket DEF Answer, Of
    <3> QED
      BY <3>1, <3>2 DEF FromProvider
  <2> QED
    BY <1>3, <2>1, <2>2, <2>3
<1>4. ASSUME NEW p \in Providers, NEW m \in PacketsOf(down'[p])
      PROVE  ToProvider(p, m)'
  <2>1. p \in Peers
    BY DEF Peers
  <2>2. CASE DownFits(p, m)'
    BY <2>2 DEF DownFits
  <2>3. CASE m \in PacketsOf(down[p]) /\ \A d \in Clients : Of(d, m) => Kept(d)
    <3>1. m \in Packets /\ ToProvider(p, m)
      BY <2>1, <2>3, FittingPackets DEF DownFits
    <3>2. ASSUME NEW c \in Clients, Pending(c, m), Request(c, m)
          PROVE  Pending(c, m)' /\ Request(c, m)'
      BY <2>3, <3>1, <3>2, KeptPacket DEF Request, Of
    <3> QED
      BY <3>1, <3>2 DEF ToProvider
  <2> QED
    BY <1>4, <2>1, <2>2, <2>3
<1>5. Addressed'
  BY <1>1, <1>2, <1>3, <1>4 DEF Addressed
<1> QED
  BY <1>5 DEF IInv

\* What a queue becomes when packets are taken or lost.
Smaller(t, s) ==
    /\ t \in Seq(Packets)
    /\ PacketsOf(t) \subseteq PacketsOf(s)
    /\ \A c \in Clients : Once(c, s) => Once(c, t)

\* Steps that take packets away.
LEMMA LessUnderWay ==
    ASSUME IInv, TypeOK', \A c \in Clients : Told(c)',
           \A p \in Peers : Smaller(up'[p], up[p]) /\ Smaller(down'[p], down[p]),
           \A c \in Clients :
              Kept(c) \/ \A p \in Peers : ~Has(c, up'[p]) /\ ~Has(c, down'[p])
    PROVE  IInv'
<1>1. ASSUME NEW c \in Clients PROVE OnePacket(c)'
  <2>1. \A p \in Peers : (Has(c, up'[p]) => Has(c, up[p])) /\ (Has(c, down'[p]) => Has(c, down[p]))
    BY DEF Smaller, Has
  <2>2. \A p \in Peers : Once(c, up'[p]) /\ Once(c, down'[p])
    BY DEF Smaller, IInv, OnePacket
  <2> QED
    BY <2>1, <2>2 DEF IInv, OnePacket, Has, Once
<1>2. \A p \in Peers : \A m \in PacketsOf(up'[p]) :
        m \in PacketsOf(up[p]) /\ \A c \in Clients : Of(c, m) => Kept(c)
  BY DEF Smaller, Has
<1>3. \A p \in Peers : \A m \in PacketsOf(down'[p]) :
        m \in PacketsOf(down[p]) /\ \A c \in Clients : Of(c, m) => Kept(c)
  BY DEF Smaller, Has
<1> QED
  BY <1>1, <1>2, <1>3, Preserved

LEMMA SmallerQueues ==
    ASSUME NEW s \in Seq(Packets)
    PROVE  /\ Smaller(s, s) /\ Smaller(<<>>, s)
           /\ s # <<>> => Smaller(Tail(s), s)
           /\ \A t \in Suffixes(s) \cup Prefixes(s) : Smaller(t, s)
<1>1. <<>> \in Seq(Packets) /\ PacketsOf(<<>>) = {} /\ \A c : Once(c, <<>>)
  <2>1. \A i \in 1..Len(<<>>) : FALSE
    BY EmptySeq, SMT
  <2> QED
    BY <2>1, EmptySeq DEF PacketsOf, Once
<1> QED
  BY <1>1, Taken, Lost DEF Smaller

\* A client's packet, wherever it is, belongs to what the client waits for.
LEMMA UnderWay ==
    ASSUME IInv, NEW c \in Clients, NEW p \in Peers,
           NEW m \in PacketsOf(up[p]) \cup PacketsOf(down[p]), Of(c, m)
    PROVE  Pending(c, m)
<1>1. Router \notin Clients /\ Nobody \notin Clients /\ Providers \cap Clients = {}
  BY MessagingAssumption DEF Peers
<1>2. CASE p \in Clients /\ m \in PacketsOf(up[p])
  <2>1. FromClient(p, m)
    BY <1>2, FittingPackets DEF UpFits
  <2>2. m.source = p
    BY <2>1 DEF FromClient, Request, Registration, Packet
  <2> QED
    BY <1>1, <2>1, <2>2 DEF FromClient, Of
<1>3. CASE p \in Clients /\ m \in PacketsOf(down[p])
  BY <1>1, <1>3, FittingPackets DEF DownFits, ToClient, Answer, Of
<1>4. CASE p \in Providers /\ m \in PacketsOf(up[p])
  <2>1. FromProvider(p, m)
    BY <1>4, FittingPackets DEF UpFits
  <2>2. m # Registration(p)
    BY <1>1, <1>4 DEF Registration, Packet, Of
  <2> QED
    BY <1>1, <1>4, <2>1, <2>2 DEF FromProvider, Answer, Of
<1>5. CASE p \in Providers /\ m \in PacketsOf(down[p])
  BY <1>1, <1>5, FittingPackets DEF DownFits, ToProvider, Request, Of
<1> QED
  BY <1>2, <1>3, <1>4, <1>5 DEF Peers

\* No packet of client c is under way in the queues us and ds.
Quiet(c, us, ds) == \A p \in Peers : ~Has(c, us[p]) /\ ~Has(c, ds[p])

LEMMA IdleClient ==
    ASSUME IInv, NEW c \in Clients, client[c].pc \in {"off", "ready"}
    PROVE  Quiet(c, up, down)
  BY UnderWay DEF Quiet, Has, Pending

\* When the packet of a client is taken from its queue, none is under way.
LEMMA OnlyHead ==
    ASSUME IInv, NEW c \in Clients, NEW p \in Peers
    PROVE  /\ up[p] # <<>> /\ Of(c, Head(up[p])) =>
                 Quiet(c, [up EXCEPT ![p] = Tail(@)], down)
           /\ down[p] # <<>> /\ Of(c, Head(down[p])) =>
                 Quiet(c, up, [down EXCEPT ![p] = Tail(@)])
<1>1. up \in [Peers -> Seq(Packets)] /\ down \in [Peers -> Seq(Packets)] /\ OnePacket(c)
  BY DEF IInv, TypeOK
<1>2. ASSUME up[p] # <<>>, Of(c, Head(up[p]))
      PROVE  Quiet(c, [up EXCEPT ![p] = Tail(@)], down)
  <2>1. Has(c, up[p]) /\ ~Has(c, Tail(up[p]))
    BY <1>1, <1>2, Taken DEF OnePacket, Has
  <2>2. \A q \in Peers : ~Has(c, down[q]) /\ (q # p => ~Has(c, up[q]))
    BY <1>1, <2>1 DEF OnePacket
  <2> QED
    BY <1>1, <2>1, <2>2 DEF Quiet
<1>3. ASSUME down[p] # <<>>, Of(c, Head(down[p]))
      PROVE  Quiet(c, up, [down EXCEPT ![p] = Tail(@)])
  <2>1. Has(c, down[p]) /\ ~Has(c, Tail(down[p]))
    BY <1>1, <1>3, Taken DEF OnePacket, Has
  <2>2. \A q \in Peers : ~Has(c, up[q]) /\ (q # p => ~Has(c, down[q]))
    BY <1>1, <2>1 DEF OnePacket
  <2> QED
    BY <1>1, <2>1, <2>2 DEF Quiet
<1> QED
  BY <1>2, <1>3

\* A step that takes or loses packets, us and ds being what it leaves, and then puts
\* packet m into one queue.
LEMMA OneMore ==
    ASSUME IInv, TypeOK', \A c \in Clients : Told(c)',
           NEW us \in [Peers -> Seq(Packets)], NEW ds \in [Peers -> Seq(Packets)],
           \A p \in Peers : Smaller(us[p], up[p]) /\ Smaller(ds[p], down[p]),
           NEW q \in Peers, NEW m \in Packets,
           \/ /\ up' = [us EXCEPT ![q] = Append(@, m)]
              /\ down' = ds
              /\ UpFits(q, m)'
           \/ /\ up' = us
              /\ down' = [ds EXCEPT ![q] = Append(@, m)]
              /\ DownFits(q, m)',
           \A c \in Clients : (Kept(c) /\ ~Of(c, m)) \/ Quiet(c, us, ds)
    PROVE  IInv'
<1>1. PacketsOf(Append(us[q], m)) = PacketsOf(us[q]) \cup {m}
      /\ PacketsOf(Append(ds[q], m)) = PacketsOf(ds[q]) \cup {m}
  BY Put
<1>2. \A p \in Peers :
         /\ up'[p] = us[p] \/ (p = q /\ up'[p] = Append(us[q], m) /\ UpFits(q, m)')
         /\ down'[p] = ds[p] \/ (p = q /\ down'[p] = Append(ds[q], m) /\ DownFits(q, m)')
  OBVIOUS
<1>3. ASSUME NEW p \in Peers, NEW n \in PacketsOf(up'[p])
      PROVE  n \in PacketsOf(us[p]) \/ (n = m /\ p = q /\ UpFits(q, m)')
  BY <1>1, <1>2, <1>3
<1>4. ASSUME NEW p \in Peers, NEW n \in PacketsOf(down'[p])
      PROVE  n \in PacketsOf(ds[p]) \/ (n = m /\ p = q /\ DownFits(q, m)')
  BY <1>1, <1>2, <1>4
<1>5. \A p \in Peers : PacketsOf(us[p]) \subseteq PacketsOf(up[p])
                      /\ PacketsOf(ds[p]) \subseteq PacketsOf(down[p])
  BY DEF Smaller
<1>6. ASSUME NEW c \in Clients, NEW p \in Peers
      PROVE  /\ \A n \in PacketsOf(us[p]) : n \in PacketsOf(up[p]) /\ (Of(c, n) => Kept(c))
             /\ \A n \in PacketsOf(ds[p]) : n \in PacketsOf(down[p]) /\ (Of(c, n) => Kept(c))
             /\ Once(c, us[p]) /\ Once(c, ds[p])
             /\ Has(c, us[p]) => Has(c, up[p])
             /\ Has(c, ds[p]) => Has(c, down[p])
  <2>1. Once(c, up[p]) /\ Once(c, down[p])
    BY DEF IInv, OnePacket
  <2>2. Once(c, us[p]) /\ Once(c, ds[p])
    BY <2>1 DEF Smaller
  <2>3. PacketsOf(us[p]) \subseteq PacketsOf(up[p]) /\ PacketsOf(ds[p]) \subseteq PacketsOf(down[p])
    BY DEF Smaller
  <2> QED
    BY <2>2, <2>3 DEF Has, Quiet
<1>7. ASSUME NEW c \in Clients
      PROVE  OnePacket(c)'
  <2>1. CASE ~Of(c, m)
    <3>1. \A p \in Peers : (Has(c, up'[p]) => Has(c, us[p])) /\ (Has(c, down'[p]) => Has(c, ds[p]))
      BY <1>3, <1>4, <2>1 DEF Has
    <3>2. \A p \in Peers : Once(c, up'[p]) /\ Once(c, down'[p])
      <4>1. Once(c, Append(us[q], m)) /\ Once(c, Append(ds[q], m))
        BY <1>6, <2>1, Put
      <4> QED
        BY <1>2, <1>6, <4>1
    <3>3. \A p \in Peers : (Has(c, up'[p]) => Has(c, up[p])) /\ (Has(c, down'[p]) => Has(c, down[p]))
      BY <1>6, <3>1
    <3>4. OnePacket(c)
      BY DEF IInv
    <3> QED
      BY <3>2, <3>3, <3>4 DEF OnePacket, Once, Has
  <2>2. CASE Of(c, m)
    <3>1. Quiet(c, us, ds)
      BY <2>2
    <3>2. \A p \in Peers : Once(c, up'[p]) /\ Once(c, down'[p])
      <4>1. Once(c, Append(us[q], m)) /\ Once(c, Append(ds[q], m))
        BY <1>6, <3>1, Put DEF Quiet
      <4> QED
        BY <1>2, <1>6, <4>1
    <3>3. CASE up' = [us EXCEPT ![q] = Append(@, m)] /\ down' = ds
      <4>1. \A p \in Peers : ~Has(c, down'[p]) /\ (Has(c, up'[p]) => p = q)
        BY <3>1, <3>3 DEF Quiet
      <4> QED
        BY <3>2, <4>1 DEF OnePacket, Once, Has
    <3>4. CASE up' = us /\ down' = [ds EXCEPT ![q] = Append(@, m)]
      <4>1. \A p \in Peers : ~Has(c, up'[p]) /\ (Has(c, down'[p]) => p = q)
        BY <3>1, <3>4 DEF Quiet
      <4> QED
        BY <3>2, <4>1 DEF OnePacket, Once, Has
    <3> QED
      BY <3>3, <3>4
  <2> QED
    BY <2>1, <2>2
<1>8. ASSUME NEW p \in Peers, NEW n \in PacketsOf(up'[p])
      PROVE  \/ n \in PacketsOf(up[p]) /\ \A c \in Clients : Of(c, n) => Kept(c)
             \/ UpFits(p, n)'
  <2>1. CASE n \in PacketsOf(us[p])
    BY <1>5, <1>6, <2>1
  <2>2. CASE n = m /\ p = q /\ UpFits(q, m)'
    BY <2>2
  <2> QED
    BY <1>3, <1>8, <2>1, <2>2
<1>9. ASSUME NEW p \in Peers, NEW n \in PacketsOf(down'[p])
      PROVE  \/ n \in PacketsOf(down[p]) /\ \A c \in Clients : Of(c, n) => Kept(c)
             \/ DownFits(p, n)'
  <2>1. CASE n \in PacketsOf(ds[p])
    BY <1>5, <1>6, <2>1
  <2>2. CASE n = m /\ p = q /\ DownFits(q, m)'
    BY <2>2
  <2> QED
    BY <1>4, <1>9, <2>1, <2>2
<1> QED
  BY <1>7, <1>8, <1>9, Preserved

-----------------------------------------------------------------------------
(* The initial state, and each action. *)

LEMMA InitIInv == Init => IInv
<1> SUFFICES ASSUME Init PROVE IInv
  OBVIOUS
<1>1. Smaller(<<>>, <<>>) /\ <<>> \in Seq(Packets) /\ PacketsOf(<<>>) = {}
  <2>1. <<>> \in Seq(Packets) /\ \A i \in 1..Len(<<>>) : FALSE
    BY EmptySeq, SMT
  <2> QED
    BY <2>1, SmallerQueues DEF PacketsOf
<1>2. TypeOK
  <2>1. 0 \in 0..MaxAsks
    BY MessagingAssumption, SMT
  <2>2. up \in [Peers -> Seq(Packets)] /\ down \in [Peers -> Seq(Packets)]
        /\ executed \in [Clients -> [1..MaxAsks -> Nat]]
        /\ outcome \in [Clients -> [1..MaxAsks -> {"none", "ok", "error", "timeout"}]]
    BY <1>1 DEF Init
  <2> QED
    BY <2>1, <2>2 DEF Init, TypeOK
<1>3. \A p \in Peers : up[p] = <<>> /\ down[p] = <<>>
  BY DEF Init
<1>4. \A c : Once(c, <<>>) /\ ~Has(c, <<>>)
  <2>1. \A i \in 1..Len(<<>>) : FALSE
    BY EmptySeq, SMT
  <2> QED
    BY <1>1, <2>1 DEF Once, Has
<1>5. \A c \in Clients : OnePacket(c) /\ Told(c)
  <2> TAKE c \in Clients
  <2>1. OnePacket(c)
    BY <1>3, <1>4 DEF OnePacket
  <2>2. Told(c)
    BY MessagingAssumption, SMT DEF Told, Init
  <2> QED
    BY <2>1, <2>2
<1>6. Addressed
  BY <1>1, <1>3 DEF Addressed, Peers
<1> QED
  BY <1>2, <1>5, <1>6 DEF IInv

LEMMA KeptUnchanged ==
    ASSUME NEW c \in Clients, UNCHANGED <<client, executed, outcome>>
    PROVE  Kept(c) /\ (Told(c) => Told(c)')
  BY DEF Kept, Told

LEMMA UnchangedQueues ==
    ASSUME IInv
    PROVE  /\ up \in [Peers -> Seq(Packets)] /\ down \in [Peers -> Seq(Packets)]
           /\ \A p \in Peers : Smaller(up[p], up[p]) /\ Smaller(down[p], down[p])
  BY SmallerQueues DEF IInv, TypeOK

\* The router and the connections.
LEMMA ConnectedKeeps == ASSUME IInv, NEW p \in Peers, Connected(p) PROVE IInv'
<1>1. TypeOK'
  BY DEF IInv, TypeOK, Connected, routerVars
<1> QED
  BY <1>1, LessUnderWay, UnchangedQueues, KeptUnchanged DEF IInv, Connected

LEMMA ConnectionLostKeeps == ASSUME IInv, NEW p \in Peers, ConnectionLost(p) PROVE IInv'
<1>1. PICK u \in Suffixes(up[p]), d \in Prefixes(down[p]) :
         up' = [up EXCEPT ![p] = u] /\ down' = [down EXCEPT ![p] = d]
  BY DEF ConnectionLost
<1>2. Smaller(u, up[p]) /\ Smaller(d, down[p])
  BY UnchangedQueues, SmallerQueues
<1>3. TypeOK'
  BY <1>1, <1>2 DEF IInv, TypeOK, ConnectionLost, Smaller
<1>4. \A q \in Peers : Smaller(up'[q], up[q]) /\ Smaller(down'[q], down[q])
  BY <1>1, <1>2, UnchangedQueues
<1> QED
  BY <1>3, <1>4, LessUnderWay, KeptUnchanged DEF IInv, ConnectionLost

LEMMA RouterKeeps == ASSUME IInv, RouterStart \/ RouterKilled PROVE IInv'
<1>1. TypeOK' /\ UNCHANGED <<up, down, client, executed, outcome>>
  BY DEF IInv, TypeOK, RouterStart, RouterKilled
<1> QED
  BY <1>1, LessUnderWay, UnchangedQueues, KeptUnchanged DEF IInv

\* The router takes the packet at the head of up[p], and sends m, or nothing.
LEMMA RouterSends ==
    ASSUME IInv, NEW p \in Peers, Listen(p), RouterUnchanged,
           providers' \subseteq Providers, clients' \subseteq Clients,
           NEW q \in Peers, NEW m \in Packets, SendTo(q, m) \/ UNCHANGED down,
           \A c \in Clients : Of(c, m) => Of(c, Head(up[p])),
           DownFits(q, m)
    PROVE  IInv'
<1> DEFINE us == [up EXCEPT ![p] = Tail(@)]
<1>1. us \in [Peers -> Seq(Packets)] /\ up' = us /\ up[p] # <<>>
  BY UnchangedQueues, SmallerQueues DEF Listen, Smaller
<1>2. \A r \in Peers : Smaller(us[r], up[r])
  BY <1>1, UnchangedQueues, SmallerQueues
<1>3. down' = down \/ down' = [down EXCEPT ![q] = Append(@, m)]
  BY DEF SendTo
<1>4. \A c \in Clients : Kept(c) /\ Told(c)'
  BY KeptUnchanged DEF RouterUnchanged, IInv
<1>5. TypeOK'
  <2>1. down' \in [Peers -> Seq(Packets)]
    <3>1. Append(down[q], m) \in Seq(Packets)
      BY UnchangedQueues, Put
    <3> QED
      BY <1>3, <3>1, UnchangedQueues
  <2> QED
    BY <1>1, <2>1 DEF IInv, TypeOK, RouterUnchanged
<1>6. CASE down' = down
  BY <1>1, <1>2, <1>4, <1>5, <1>6, LessUnderWay, UnchangedQueues
<1>7. CASE down' = [down EXCEPT ![q] = Append(@, m)]
  <2>1. \A c \in Clients : (Kept(c) /\ ~Of(c, m)) \/ Quiet(c, us, down)
    BY <1>1, <1>4, OnlyHead
  <2>2. DownFits(q, m)'
    <3>1. UNCHANGED <<client, executed, outcome>>
      BY DEF RouterUnchanged
    <3> QED
      BY <3>1 DEF DownFits, ToClient, ToProvider, Pending, Answer, Request
  <2> QED
    BY <1>1, <1>2, <1>4, <1>5, <1>7, <2>1, <2>2, OneMore, UnchangedQueues
<1> QED
  BY <1>3, <1>6, <1>7

LEMMA HandleRegistrationKeeps ==
    ASSUME IInv, NEW p \in Peers, HandleRegistration(p)
    PROVE  IInv'
<1> DEFINE m == Head(up[p])
<1>1. Listen(p) /\ m.intent = "REGISTRATION" /\ RouterUnchanged
  BY DEF HandleRegistration
<1>2. m \in Packets /\ m \in PacketsOf(up[p]) /\ UpFits(p, m)
  BY <1>1, FittingPackets, Taken DEF Listen
<1>3. m = Registration(p) /\ m.source = p /\ m.ask = 0 /\ (p \in Clients => Pending(p, m))
  BY <1>1, <1>2 DEF UpFits, FromClient, FromProvider, Request, Registration, Packet, Peers
<1> HIDE DEF m
<1>4. PICK n \in {ErrorFrom(Router, p, m),
                  Packet("REGISTRATION_ACK", "ACKNOWLEDGE", Router, p, m.ask)} : SendTo(p, n)
  BY DEF HandleRegistration, m
<1>5. /\ n.source = Router /\ n.destination = p /\ n.ask = 0
      /\ n.request \in {"ACKNOWLEDGE", "ERROR"}
      /\ n \in Packets
  BY <1>3, <1>4, MessagingAssumption DEF ErrorFrom, Packet, Packets, Intents
<1>6. DownFits(p, n)
  BY <1>3, <1>5, SMT DEF DownFits, ToClient, ToProvider, Pending, Answer
<1>7. \A c \in Clients : Of(c, n) => Of(c, m)
  BY <1>3, <1>5, MessagingAssumption DEF Of, Peers
<1>8. providers' \subseteq Providers /\ clients' \subseteq Clients
  BY DEF HandleRegistration, IInv, TypeOK
<1> QED
  BY <1>1, <1>4, <1>5, <1>6, <1>7, <1>8, RouterSends DEF m

LEMMA HandlePassPacketKeeps ==
    ASSUME IInv, NEW p \in Peers, HandlePassPacket(p)
    PROVE  IInv'
<1> DEFINE m == Head(up[p])
<1>1. Listen(p) /\ m.intent # "REGISTRATION" /\ RouterUnchanged
      /\ UNCHANGED <<providers, clients>> /\ providers \subseteq Providers /\ clients \subseteq Clients
  BY DEF HandlePassPacket, IInv, TypeOK
<1>2. m \in Packets /\ m \in PacketsOf(up[p]) /\ UpFits(p, m)
  BY <1>1, FittingPackets, Taken DEF Listen
<1>3. \/ /\ p \in Clients /\ m.source = p /\ Pending(p, m) /\ Request(p, m)
         /\ m.destination \notin Clients
      \/ /\ p \in Providers /\ m.source = p /\ m.destination \in Clients
         /\ Pending(m.destination, m) /\ Answer(m.destination, m)
  <2>1. m # Registration(p)
    BY <1>1 DEF Registration, Packet
  <2>2. CASE p \in Clients
    BY <1>2, <2>1, <2>2 DEF UpFits, FromClient, Request
  <2>3. CASE p \in Providers
    BY <1>2, <2>1, <2>3 DEF UpFits, FromProvider, Answer
  <2> QED
    BY <2>2, <2>3 DEF Peers
<1> HIDE DEF m
<1>4. CASE m.destination = Router /\ UNCHANGED down
  <2>1. DownFits(p, Packet("ERROR", "ERROR", Router, p, m.ask))
        /\ Packet("ERROR", "ERROR", Router, p, m.ask) \in Packets
    BY <1>2, <1>3, <1>4, MessagingAssumption, SMT
       DEF DownFits, ToClient, ToProvider, Pending, Answer, Packet, Packets, Intents, Peers, Request
  <2>2. \A c \in Clients : Of(c, Packet("ERROR", "ERROR", Router, p, m.ask)) => Of(c, m)
    BY <1>3, MessagingAssumption DEF Of, Packet, Peers
  <2> QED
    BY <1>1, <1>4, <2>1, <2>2, RouterSends DEF m
<1>5. CASE m.destination \in providers \cup clients /\ SendTo(m.destination, m)
  <2>1. m.destination \in Peers
    BY <1>1, <1>5 DEF Peers
  <2>2. DownFits(m.destination, m)
    BY <1>3, <2>1, MessagingAssumption DEF DownFits, ToClient, ToProvider, Peers
  <2> QED
    BY <1>1, <1>2, <1>5, <2>1, <2>2, RouterSends DEF m
<1>6. CASE SendTo(p, ErrorFrom(Router, p, m))
  <2>1. DownFits(p, ErrorFrom(Router, p, m)) /\ ErrorFrom(Router, p, m) \in Packets
    BY <1>2, <1>3, MessagingAssumption, SMT
       DEF DownFits, ToClient, ToProvider, Pending, Answer, Packet, Packets, Intents, Peers, ErrorFrom
  <2>2. \A c \in Clients : Of(c, ErrorFrom(Router, p, m)) => Of(c, m)
    BY <1>3, MessagingAssumption DEF Of, Packet, Peers, ErrorFrom
  <2> QED
    BY <1>1, <1>6, <2>1, <2>2, RouterSends DEF m
<1> QED
  BY <1>4, <1>5, <1>6 DEF HandlePassPacket, m

\* The beat of a provider is of no client.
LEMMA ARegistration ==
    ASSUME NEW p \in Peers
    PROVE  /\ Registration(p) \in Packets
           /\ p \in Providers => FromProvider(p, Registration(p))
           /\ \A c \in Clients : c # p => ~Of(c, Registration(p))
<1>1. 0 \in 0..MaxAsks
  BY MessagingAssumption, SMT
<1>2. Registration(p) \in Packets
  BY <1>1, MessagingAssumption DEF Registration, Packet, Packets, Intents
<1>3. \A c \in Clients : c # p => ~Of(c, Registration(p))
  BY MessagingAssumption DEF Registration, Packet, Of, Peers
<1> QED
  BY <1>2, <1>3 DEF FromProvider

\* A provider's queues become us and ds before its beat is put into the former.
LEMMA BeatSent ==
    ASSUME IInv, TypeOK', NEW p \in Providers, UNCHANGED <<down, client, executed, outcome>>,
           NEW t \in Seq(Packets), Smaller(t, up[p]),
           up' = [up EXCEPT ![p] = Append(t, Registration(p))]
    PROVE  IInv'
<1> DEFINE us == [up EXCEPT ![p] = t]
<1>1. p \in Peers /\ p \notin Clients
  BY MessagingAssumption DEF Peers
<1>2. us \in [Peers -> Seq(Packets)] /\ up' = [us EXCEPT ![p] = Append(@, Registration(p))]
  BY <1>1, UnchangedQueues
<1>3. \A q \in Peers : Smaller(us[q], up[q])
  BY <1>1, UnchangedQueues
<1>4. \A c \in Clients : Kept(c) /\ Told(c)'
  BY KeptUnchanged DEF IInv
<1>5. UpFits(p, Registration(p))'
  BY <1>1 DEF UpFits, FromProvider
<1>6. Registration(p) \in Packets /\ \A c \in Clients : ~Of(c, Registration(p))
  BY <1>1, ARegistration
<1> HIDE DEF us
<1> QED
  BY <1>1, <1>2, <1>3, <1>4, <1>5, <1>6, OneMore, UnchangedQueues

LEMMA ProviderStartKeeps ==
    ASSUME IInv, NEW p \in Providers, ProviderStart(p)
    PROVE  IInv'
<1>1. p \in Peers
  BY DEF Peers
<1>2. <<>> \in Seq(Packets) /\ Smaller(<<>>, up[p])
      /\ <<Registration(p)>> = Append(<<>>, Registration(p))
  BY <1>1, SmallerQueues, UnchangedQueues, Append(<<>>, Registration(p)) = <<Registration(p)>>
     DEF Smaller
<1>3. up' = [up EXCEPT ![p] = Append(<<>>, Registration(p))]
  BY <1>2 DEF ProviderStart
<1>4. TypeOK'
  <2>1. Append(<<>>, Registration(p)) \in Seq(Packets)
    BY <1>1, <1>2, Put, ARegistration
  <2>2. up' \in [Peers -> Seq(Packets)]
    BY <1>1, <1>3, <2>1, UnchangedQueues
  <2> QED
    BY <1>1, <2>2 DEF IInv, TypeOK, ProviderStart, ProviderUnchanged, routerVars
<1> QED
  BY <1>2, <1>3, <1>4, BeatSent DEF ProviderStart, ProviderUnchanged

LEMMA BeatKeeps == ASSUME IInv, NEW p \in Providers, Beat(p) PROVE IInv'
<1>1. p \in Peers
  BY DEF Peers
<1>2. up' = [up EXCEPT ![p] = Append(up[p], Registration(p))]
  BY DEF Beat
<1>3. TypeOK'
  <2>1. Append(up[p], Registration(p)) \in Seq(Packets)
    BY <1>1, Put, ARegistration, UnchangedQueues
  <2>2. up' \in [Peers -> Seq(Packets)]
    BY <1>1, <1>2, <2>1, UnchangedQueues
  <2> QED
    BY <2>2 DEF IInv, TypeOK, Beat, ProviderUnchanged, routerVars
<1> QED
  BY <1>1, <1>2, <1>3, BeatSent, UnchangedQueues DEF Beat, ProviderUnchanged

LEMMA ProviderIgnoresKeeps ==
    ASSUME IInv, NEW p \in Providers, ProviderIgnores(p)
    PROVE  IInv'
<1>1. p \in Peers
  BY DEF Peers
<1>2. \A q \in Peers : Smaller(up'[q], up[q]) /\ Smaller(down'[q], down[q])
  BY <1>1, UnchangedQueues, SmallerQueues DEF ProviderIgnores, ProviderListens
<1>3. down' \in [Peers -> Seq(Packets)]
  BY <1>1, UnchangedQueues, Taken DEF ProviderIgnores, ProviderListens
<1>4. TypeOK'
  BY <1>3 DEF IInv, TypeOK, ProviderIgnores, ProviderUnchanged, routerVars
<1> QED
  BY <1>2, <1>4, LessUnderWay, KeptUnchanged DEF IInv, ProviderIgnores, ProviderUnchanged

\* A packet in a provider's queue that is no packet of the router is the request of a
\* client that waits.
LEMMA ARequest ==
    ASSUME IInv, NEW p \in Providers, down[p] # <<>>, Head(down[p]).request \in AllRequests
    PROVE  LET m == Head(down[p]) IN
           /\ m \in Packets
           /\ m.source \in Clients /\ m.destination = p
           /\ Pending(m.source, m) /\ Request(m.source, m)
           /\ m.ask \in 1..MaxAsks
           /\ Of(m.source, m) /\ \A c \in Clients : Of(c, m) => c = m.source
<1> DEFINE m == Head(down[p])
<1>1. p \in Peers /\ p \notin Clients
  BY MessagingAssumption DEF Peers
<1>2. m \in Packets /\ ToProvider(p, m)
  BY <1>1, FittingPackets, UnchangedQueues, Taken DEF DownFits
<1>3. PICK c \in Clients : Pending(c, m) /\ Request(c, m)
  BY <1>2 DEF ToProvider, AllRequests
<1>4. m.source = c /\ m.destination = p
  BY <1>2, <1>3 DEF Request, ToProvider
<1>5. m.ask \in 1..MaxAsks
  <2>1. m.ask \in 0..MaxAsks /\ m.ask > 0
    BY <1>2, <1>3 DEF Request, Packets
  <2> QED
    BY <2>1, MessagingAssumption, SMT
<1> QED
  BY <1>1, <1>2, <1>3, <1>4, <1>5 DEF Of

\* What the execution of a request changes.
LEMMA Executed ==
    ASSUME IInv, NEW p \in Providers, down[p] # <<>>,
           NEW m, m = Head(down[p]), m.request \in AllRequests,
           Execute(m) \/ UNCHANGED executed, UNCHANGED <<client, outcome>>
    PROVE  /\ executed' \in [Clients -> [1..MaxAsks -> Nat]]
           /\ Execute(m) => executed'[m.source][m.ask] = 1
           /\ \A c \in Clients : Told(c)'
           /\ \A c \in Clients : c # m.source => Kept(c)
<1>1. PICK s \in Clients, k \in 1..MaxAsks :
         s = m.source /\ k = m.ask /\ k = client[s].asked /\ executed[s][k] = 0
  BY ARequest DEF Request, Pending
<1>2. executed \in [Clients -> [1..MaxAsks -> Nat]]
  BY DEF IInv, TypeOK
<1>3. /\ executed' \in [Clients -> [1..MaxAsks -> Nat]]
      /\ Execute(m) => executed'[s][k] = 1
      /\ \A c \in Clients, n \in 1..MaxAsks :
            c # s \/ n # k => executed'[c][n] = executed[c][n]
      /\ \A c \in Clients : c # s => executed'[c] = executed[c]
  <2>1. CASE Execute(m)
    <3>1. executed' = [executed EXCEPT ![s] = [executed[s] EXCEPT ![k] = 0 + 1]]
      BY <1>1, <1>2, <2>1 DEF Execute
    <3>2. executed[s] \in [1..MaxAsks -> Nat] /\ 0 + 1 = 1 /\ 1 \in Nat
      BY <1>2
    <3> QED
      BY <1>2, <3>1, <3>2
  <2>2. CASE ~Execute(m)
    BY <1>2, <2>2
  <2> QED
    BY <2>1, <2>2
<1>4. ASSUME NEW c \in Clients
      PROVE  Told(c)'
  <2>1. Told(c)
    BY DEF IInv
  <2>2. \A n \in 1..MaxAsks : n > client[c].asked => ~(c = s /\ n = k)
    BY <1>1, MessagingAssumption, SMT
  <2> QED
    BY <1>3, <2>1, <2>2 DEF Told
<1> QED
  BY <1>1, <1>3, <1>4 DEF Kept

\* A provider takes a request and sends the answer n.
LEMMA ProviderSends ==
    ASSUME IInv, NEW p \in Providers, ProviderListens(p), ProviderUnchanged,
           UNCHANGED <<link, provider>>,
           Head(down[p]).request \in AllRequests,
           Execute(Head(down[p])) \/ UNCHANGED executed,
           NEW n \in {ReplyTo(Head(down[p])),
                      ErrorFrom(p, Head(down[p]).source, Head(down[p]))},
           n.intent # "ERROR" => Execute(Head(down[p])),
           up' = [up EXCEPT ![p] = Append(@, n)]
    PROVE  IInv'
<1> DEFINE ds == [down EXCEPT ![p] = Tail(@)]
<1>0. PICK m, c : m = Head(down[p]) /\ c = m.source
  OBVIOUS
<1>1. p \in Peers /\ p \notin Clients /\ down[p] # <<>> /\ down' = ds
      /\ UNCHANGED <<client, outcome>>
  BY MessagingAssumption DEF Peers, ProviderListens, ProviderUnchanged
<1>2. /\ m \in Packets /\ c \in Clients /\ m.destination = p
      /\ Pending(c, m) /\ Request(c, m) /\ m.ask \in 1..MaxAsks
      /\ Of(c, m) /\ \A d \in Clients : Of(d, m) => d = c
  BY <1>0, <1>1, ARequest
<1>3. /\ executed' \in [Clients -> [1..MaxAsks -> Nat]]
      /\ Execute(m) => executed'[c][m.ask] = 1
      /\ \A d \in Clients : Told(d)'
      /\ \A d \in Clients : d # c => Kept(d)
  BY <1>0, <1>1, Executed
<1>4. ds \in [Peers -> Seq(Packets)] /\ \A q \in Peers : Smaller(ds[q], down[q])
  BY <1>1, UnchangedQueues, SmallerQueues DEF Smaller
<1>5. Quiet(c, up, ds)
  BY <1>0, <1>1, <1>2, OnlyHead
<1>6. n.source = p /\ n.destination = c /\ n.ask = m.ask /\ n \in Packets
      /\ n.intent # "REGISTRATION"
  BY <1>0, <1>1, <1>2, MessagingAssumption
     DEF ReplyTo, ErrorFrom, Packet, Packets, Intents, Request, Peers
<1> HIDE DEF ds
<1>7. UpFits(p, n)'
  <2>1. Pending(c, n)'
    BY <1>1, <1>2, <1>6 DEF Pending
  <2>2. Answer(c, n)'
    BY <1>0, <1>3, <1>6 DEF Answer
  <2> QED
    BY <1>1, <1>2, <1>6, <2>1, <2>2 DEF UpFits, FromProvider
<1>8. \A d \in Clients : d # c => ~Of(d, n)
  BY <1>1, <1>6 DEF Of
<1>9. TypeOK'
  <2>1. up' \in [Peers -> Seq(Packets)]
    <3>1. Append(up[p], n) \in Seq(Packets)
      BY <1>1, <1>6, Put, UnchangedQueues
    <3> QED
      BY <1>1, <3>1, UnchangedQueues
  <2> QED
    BY <1>1, <1>3, <1>4, <2>1 DEF IInv, TypeOK, ProviderUnchanged, routerVars
<1>10. \A d \in Clients : (Kept(d) /\ ~Of(d, n)) \/ Quiet(d, up, ds)
  BY <1>3, <1>5, <1>8
<1>11. /\ n \in Packets /\ ds \in [Peers -> Seq(Packets)]
       /\ \A q \in Peers : Smaller(up[q], up[q]) /\ Smaller(ds[q], down[q])
       /\ \A d \in Clients : Told(d)'
  BY <1>3, <1>4, <1>6, UnchangedQueues
<1>12. up \in [Peers -> Seq(Packets)] /\ p \in Peers /\ down' = ds
  BY <1>1, UnchangedQueues
<1> QED
  BY <1>7, <1>9, <1>10, <1>11, <1>12, OneMore

LEMMA ProviderAnswersKeeps ==
    ASSUME IInv, NEW p \in Providers, ProviderAnswers(p)
    PROVE  IInv'
<1>1. Head(down[p]).request \in AllRequests /\ Execute(Head(down[p]))
  BY DEF ProviderAnswers
<1> QED
  BY <1>1, ProviderSends DEF ProviderAnswers

LEMMA ProviderRejectsKeeps ==
    ASSUME IInv, NEW p \in Providers, ProviderRejects(p)
    PROVE  IInv'
<1>1. Head(down[p]).request \in AllRequests
      /\ ErrorFrom(p, Head(down[p]).source, Head(down[p])).intent = "ERROR"
  BY DEF ProviderRejects, ErrorFrom, Packet
<1> QED
  BY <1>1, ProviderSends DEF ProviderRejects

LEMMA InstrumentRaisesKeeps ==
    ASSUME IInv, NEW p \in Providers, InstrumentRaises(p)
    PROVE  IInv'
<1>1. Head(down[p]).request \in AllRequests /\ Execute(Head(down[p]))
  BY DEF InstrumentRaises, AllRequests
<1> QED
  BY <1>1, ProviderSends DEF InstrumentRaises

LEMMA ProviderFailsKeeps ==
    ASSUME IInv, NEW p \in Providers, ProviderFails(p)
    PROVE  IInv'
<1>0. PICK m, c : m = Head(down[p]) /\ c = m.source
  OBVIOUS
<1>1. p \in Peers /\ down[p] # <<>> /\ m.request \in AllRequests /\ Execute(m)
      /\ down' = [down EXCEPT ![p] = <<>>] /\ UNCHANGED <<up, client, outcome>>
  BY <1>0 DEF Peers, ProviderFails, AllRequests
<1>2. c \in Clients /\ Of(c, m)
  BY <1>0, <1>1, ARequest
<1>3. /\ executed' \in [Clients -> [1..MaxAsks -> Nat]]
      /\ \A d \in Clients : Told(d)'
      /\ \A d \in Clients : d # c => Kept(d)
  BY <1>0, <1>1, Executed
<1>4. <<>> \in Seq(Packets) /\ \A q \in Peers : Smaller(<<>>, down[q])
  BY UnchangedQueues, SmallerQueues DEF Smaller
<1>5. Quiet(c, up', down')
  <2>1. Quiet(c, up, [down EXCEPT ![p] = Tail(@)])
    BY <1>0, <1>1, <1>2, OnlyHead
  <2>2. ~Has(c, <<>>)
    <3>1. \A i \in 1..Len(<<>>) : FALSE
      BY EmptySeq, SMT
    <3> QED
      BY <3>1 DEF Has, PacketsOf
  <2> QED
    BY <1>1, <2>1, <2>2, UnchangedQueues DEF Quiet
<1>6. TypeOK'
  BY <1>1, <1>3, <1>4 DEF IInv, TypeOK, ProviderFails
<1>7. \A q \in Peers : Smaller(up'[q], up[q]) /\ Smaller(down'[q], down[q])
  BY <1>1, <1>4, UnchangedQueues
<1> QED
  BY <1>3, <1>5, <1>6, <1>7, LessUnderWay DEF Quiet

LEMMA ProviderKilledKeeps ==
    ASSUME IInv, NEW p \in Providers, ProviderKilled(p)
    PROVE  IInv'
<1>1. PICK u \in Prefixes(up[p]) \cup {<<>>} : up' = [up EXCEPT ![p] = u]
  BY DEF ProviderKilled
<1>2. p \in Peers /\ Smaller(u, up[p]) /\ Smaller(<<>>, down[p])
  BY UnchangedQueues, SmallerQueues DEF Peers
<1>3. \A q \in Peers : Smaller(up'[q], up[q]) /\ Smaller(down'[q], down[q])
  BY <1>1, <1>2, UnchangedQueues DEF ProviderKilled
<1>4. TypeOK'
  BY <1>1, <1>2 DEF IInv, TypeOK, ProviderKilled, Smaller
<1> QED
  BY <1>3, <1>4, LessUnderWay, KeptUnchanged DEF IInv, ProviderKilled

\* What a client's own step does to the history of the others.
LEMMA OthersKept ==
    ASSUME NEW c \in Clients, UNCHANGED executed,
           \A d \in Clients : d # c => client'[d] = client[d] /\ outcome'[d] = outcome[d]
    PROVE  \A d \in Clients : d # c => Kept(d) /\ (Told(d) => Told(d)')
  BY DEF Kept, Told

\* A client that is idle sends packet m.
LEMMA ClientSends ==
    ASSUME IInv, TypeOK', NEW c \in Clients, client[c].pc \in {"off", "ready"}, Told(c)',
           UNCHANGED <<executed, outcome>>,
           \A d \in Clients : d # c => client'[d] = client[d],
           NEW m \in Packets, FromClient(c, m)', \A d \in Clients : d # c => ~Of(d, m),
           up' = [up EXCEPT ![c] = Append(@, m)],
           NEW t \in Suffixes(down[c]), down' = [down EXCEPT ![c] = t]
    PROVE  IInv'
<1>1. c \in Peers /\ c \notin Providers
  BY MessagingAssumption DEF Peers
<1>2. Smaller(t, down[c])
  BY <1>1, UnchangedQueues, SmallerQueues
<1>3. down' \in [Peers -> Seq(Packets)] /\ \A p \in Peers : Smaller(down'[p], down[p])
  BY <1>1, <1>2, UnchangedQueues DEF Smaller
<1>4. Quiet(c, up, down')
  <2>1. Quiet(c, up, down)
    BY IdleClient
  <2> QED
    BY <1>3, <2>1 DEF Quiet, Smaller, Has
<1>5. \A d \in Clients : Told(d)' /\ ((Kept(d) /\ ~Of(d, m)) \/ Quiet(d, up, down'))
  BY <1>4, OthersKept DEF IInv
<1>6. UpFits(c, m)'
  BY <1>1 DEF UpFits
<1> QED
  <2>1. PICK ds : ds = down'
    OBVIOUS
  <2> QED
    BY <1>1, <1>3, <1>5, <1>6, <2>1, OneMore, UnchangedQueues

\* The whole of a queue is what is left of it when nothing is thrown away.
LEMMA WholeQueue == ASSUME NEW s \in Seq(Packets) PROVE s \in Suffixes(s)
<1>1. Len(s) \in Nat /\ s \in [1..Len(s) -> Packets]
  BY LenProperties
<1>2. SubSeq(s, 1, Len(s)) = s
  BY <1>1, SubSeqProperties, SMT
<1>3. 1 \in 1..Len(s) + 1
  BY <1>1, SMT
<1> QED
  BY <1>2, <1>3 DEF Suffixes

LEMMA ConnectKeeps == ASSUME IInv, NEW c \in Clients, Connect(c) PROVE IInv'
<1>1. /\ c \in Peers /\ client[c].pc = "off" /\ UNCHANGED <<down, executed, outcome>>
      /\ client' = [client EXCEPT ![c].pc = "registering"]
      /\ up' = [up EXCEPT ![c] = Append(@, Registration(c))]
  BY DEF Connect, ClientUnchanged, Peers
<1>2. /\ client[c].asked = 0 /\ client'[c].asked = 0 /\ client'[c].pc = "registering"
      /\ \A d \in Clients : d # c => client'[d] = client[d]
  BY <1>1 DEF IInv, Told, TypeOK
<1>3. Told(c)'
  BY <1>1, <1>2 DEF IInv, Told
<1>4. FromClient(c, Registration(c))'
  <2>1. Registration(c).ask = 0 /\ Registration(c).destination \notin Clients
    BY MessagingAssumption DEF Registration, Packet, Peers
  <2> QED
    BY <1>2, <2>1, SMT DEF FromClient, Pending
<1>5. TypeOK'
  <2>1. Append(up[c], Registration(c)) \in Seq(Packets)
    BY <1>1, Put, ARegistration, UnchangedQueues
  <2>2. up' \in [Peers -> Seq(Packets)]
    BY <1>1, <2>1, UnchangedQueues
  <2>3. client' \in [Clients -> ClientState]
    BY <1>1 DEF IInv, TypeOK, ClientState
  <2> QED
    BY <1>1, <2>2, <2>3 DEF IInv, TypeOK, Connect, ClientUnchanged, routerVars
<1>6. down[c] \in Suffixes(down[c]) /\ down' = [down EXCEPT ![c] = down[c]]
  BY <1>1, WholeQueue, UnchangedQueues
<1> QED
  BY <1>1, <1>2, <1>3, <1>4, <1>5, <1>6, ARegistration, ClientSends

LEMMA ClientAsksKeeps ==
    ASSUME NoClientIsTarget, IInv, NEW c \in Clients, NEW target \in Targets,
           NEW r \in Requests, ClientAsks(c, target, r)
    PROVE  IInv'
<1>1. PICK n : n = client[c].asked + 1
  OBVIOUS
<1>2. /\ n <= MaxAsks /\ client[c].pc = "ready" /\ UNCHANGED <<executed, outcome>>
      /\ client' = [client EXCEPT ![c] = [pc |-> "asking", asked |-> n]]
      /\ up' = [up EXCEPT ![c] = Append(@, Ask(c, target, r, n))]
  BY <1>1 DEF ClientAsks, ClientUnchanged
<1>3. client[c].asked \in 0..MaxAsks /\ client \in [Clients -> ClientState]
  BY DEF IInv, TypeOK, ClientState
<1>4. n \in 1..MaxAsks /\ n > 0 /\ n > client[c].asked /\ n \in 0..MaxAsks
      /\ \A k \in 1..MaxAsks : k > n => k > client[c].asked
  BY <1>1, <1>2, <1>3, MessagingAssumption, SMT
<1>5. /\ client'[c].asked = n /\ client'[c].pc = "asking"
      /\ \A d \in Clients : d # c => client'[d] = client[d]
  BY <1>2, <1>3
<1>6. outcome[c][n] = "none" /\ executed[c][n] = 0
  BY <1>4 DEF IInv, Told
<1>7. Told(c)'
  BY <1>2, <1>4, <1>5, <1>6 DEF IInv, Told
<1>8. PICK m \in Packets : m = Ask(c, target, r, n)
  <2>1. IntentOf(r) \in Intents
    BY DEF IntentOf, Intents
  <2>2. c \in Peers /\ target \in Peers \cup {Router, Nobody} /\ r \in AllRequests
    BY MessagingAssumption DEF Peers
  <2> QED
    BY <1>4, <2>1, <2>2 DEF Ask, Packet, Packets
<1>9. /\ m.source = c /\ m.destination = target /\ m.ask = n
      /\ m.request \in AllRequests /\ m.intent # "REGISTRATION"
  BY <1>8, MessagingAssumption DEF Ask, Packet, IntentOf
<1>10. target \notin Clients
  BY DEF NoClientIsTarget
<1>11. FromClient(c, m)'
  <2>1. Request(c, m)'
    BY <1>2, <1>4, <1>6, <1>9 DEF Request
  <2>2. Pending(c, m)'
    BY <1>2, <1>5, <1>6, <1>9 DEF Pending
  <2> QED
    BY <1>9, <1>10, <2>1, <2>2 DEF FromClient
<1>12. \A d \in Clients : d # c => ~Of(d, m)
  BY <1>9, <1>10 DEF Of
<1>13. PICK t \in Suffixes(down[c]) : down' = [down EXCEPT ![c] = t]
  BY DEF ClientAsks
<1>14. TypeOK'
  <2>1. up' \in [Peers -> Seq(Packets)]
    <3>1. c \in Peers
      BY DEF Peers
    <3>2. Append(up[c], m) \in Seq(Packets)
      BY <3>1, Put, UnchangedQueues
    <3> QED
      BY <1>2, <1>8, <3>1, <3>2, UnchangedQueues
  <2>2. down' \in [Peers -> Seq(Packets)]
    BY <1>13, UnchangedQueues, SmallerQueues DEF Peers, Smaller
  <2>3. client' \in [Clients -> ClientState]
    BY <1>2, <1>3, <1>4 DEF ClientState
  <2> QED
    BY <2>1, <2>2, <2>3 DEF IInv, TypeOK, ClientAsks, ClientUnchanged, routerVars
<1> QED
  BY <1>2, <1>5, <1>7, <1>8, <1>11, <1>12, <1>13, <1>14, ClientSends

\* A client takes the packet at the head of its queue: none of its packets is left.
LEMMA ClientTakes ==
    ASSUME IInv, TypeOK', NEW c \in Clients, ClientReceives(c), Told(c)',
           UNCHANGED <<up, executed>>,
           \A d \in Clients : d # c => client'[d] = client[d] /\ outcome'[d] = outcome[d]
    PROVE  IInv'
<1>1. c \in Peers /\ down[c] # <<>> /\ down' = [down EXCEPT ![c] = Tail(@)]
  BY DEF Peers, ClientReceives
<1>2. Of(c, Head(down[c]))
  BY <1>1, FittingPackets, Taken, UnchangedQueues DEF DownFits, ToClient, Answer, Of
<1>3. Quiet(c, up', down')
  BY <1>1, <1>2, OnlyHead
<1>4. \A p \in Peers : Smaller(up'[p], up[p]) /\ Smaller(down'[p], down[p])
  BY <1>1, UnchangedQueues, SmallerQueues
<1>5. \A d \in Clients : Told(d)' /\ (d # c => Kept(d))
  BY OthersKept DEF IInv
<1> QED
  BY <1>3, <1>4, <1>5, LessUnderWay DEF Quiet

LEMMA AcknowledgedKeeps == ASSUME IInv, NEW c \in Clients, Acknowledged(c) PROVE IInv'
<1>1. /\ client[c].pc = "registering" /\ ClientReceives(c)
      /\ client' = [client EXCEPT ![c].pc = "ready"] /\ UNCHANGED <<up, outcome, executed>>
  BY DEF Acknowledged, ClientUnchanged
<1>2. client'[c].asked = 0 /\ client[c].asked = 0
      /\ client'[c].pc = "ready" /\ \A d \in Clients : d # c => client'[d] = client[d]
  BY <1>1 DEF IInv, Told, TypeOK
<1>3. Told(c)'
  BY <1>1, <1>2, SMT DEF IInv, Told
<1>4. TypeOK'
  <2>1. down' \in [Peers -> Seq(Packets)]
    BY <1>1, UnchangedQueues, Taken DEF ClientReceives, Peers
  <2>2. client' \in [Clients -> ClientState]
    BY <1>1 DEF IInv, TypeOK, ClientState
  <2> QED
    BY <1>1, <2>1, <2>2 DEF IInv, TypeOK, Acknowledged, ClientUnchanged, routerVars
<1> QED
  BY <1>1, <1>2, <1>3, <1>4, ClientTakes

\* What being told the result of a request changes.
LEMMA ResultTold ==
    ASSUME IInv, NEW c \in Clients, client[c].pc = "asking",
           NEW pc \in {"ready", "timedout"}, NEW result \in {"ok", "error", "timeout"},
           client' = [client EXCEPT ![c].pc = pc],
           outcome' = [outcome EXCEPT ![c][client[c].asked] = result], UNCHANGED executed
    PROVE  /\ client' \in [Clients -> ClientState]
           /\ outcome' \in [Clients -> [1..MaxAsks -> {"none", "ok", "error", "timeout"}]]
           /\ \A d \in Clients : d # c => client'[d] = client[d] /\ outcome'[d] = outcome[d]
           /\ Told(c)'
           /\ result = "timeout" /\ pc = "timedout" => Kept(c)
<1>1. /\ client \in [Clients -> ClientState]
      /\ outcome \in [Clients -> [1..MaxAsks -> {"none", "ok", "error", "timeout"}]]
      /\ Told(c)
  BY DEF IInv, TypeOK, ClientState
<1>2. PICK n \in 1..MaxAsks : n = client[c].asked
  <2>1. client[c].asked \in 0..MaxAsks /\ client[c].asked > 0
    BY <1>1 DEF Told, ClientState
  <2> QED
    BY <2>1, MessagingAssumption, SMT
<1>3. outcome' = [outcome EXCEPT ![c] = [outcome[c] EXCEPT ![n] = result]]
  BY <1>1, <1>2
<1>4. client'[c].asked = n /\ client'[c].pc = pc
  BY <1>1, <1>2
<1>5. /\ outcome'[c][n] = result
      /\ \A k \in 1..MaxAsks : k # n => outcome'[c][k] = outcome[c][k]
      /\ outcome' \in [Clients -> [1..MaxAsks -> {"none", "ok", "error", "timeout"}]]
  <2>1. outcome'[c] = [outcome[c] EXCEPT ![n] = result]
        /\ outcome[c] \in [1..MaxAsks -> {"none", "ok", "error", "timeout"}]
    BY <1>1, <1>3
  <2>2. outcome'[c] \in [1..MaxAsks -> {"none", "ok", "error", "timeout"}]
    BY <2>1
  <2> QED
    BY <1>1, <1>3, <2>1, <2>2
<1>6. \A k \in 1..MaxAsks : k > n => k # n
  BY MessagingAssumption, SMT
<1>7. Told(c)'
  BY <1>1, <1>2, <1>4, <1>5, <1>6 DEF Told
<1>8. result = "timeout" /\ pc = "timedout" => Kept(c)
  BY <1>1, <1>2, <1>4, <1>5 DEF Kept
<1>9. /\ client' \in [Clients -> ClientState]
      /\ \A d \in Clients : d # c => client'[d] = client[d] /\ outcome'[d] = outcome[d]
  BY <1>1, <1>3 DEF ClientState
<1> QED
  BY <1>5, <1>7, <1>8, <1>9

LEMMA AnsweredKeeps == ASSUME IInv, NEW c \in Clients, Answered(c) PROVE IInv'
<1>1. /\ client[c].pc = "asking" /\ ClientReceives(c)
      /\ client' = [client EXCEPT ![c].pc = "ready"] /\ UNCHANGED <<up, executed>>
  BY DEF Answered, ClientUnchanged
<1>2. PICK result \in {"ok", "error", "timeout"} :
         outcome' = [outcome EXCEPT ![c][client[c].asked] = result]
  BY DEF Answered
<1>3. TypeOK'
  <2>1. down' \in [Peers -> Seq(Packets)]
    BY <1>1, UnchangedQueues, Taken DEF ClientReceives, Peers
  <2> QED
    BY <1>1, <1>2, <2>1, ResultTold DEF IInv, TypeOK, Answered, ClientUnchanged, routerVars, ClientState
<1> QED
  BY <1>1, <1>2, <1>3, ResultTold, ClientTakes

LEMMA AskTimesOutKeeps == ASSUME IInv, NEW c \in Clients, AskTimesOut(c) PROVE IInv'
<1>1. /\ client[c].pc = "asking" /\ UNCHANGED <<up, down, executed>>
      /\ client' = [client EXCEPT ![c].pc = "timedout"]
      /\ outcome' = [outcome EXCEPT ![c][client[c].asked] = "timeout"]
  BY DEF AskTimesOut, ClientUnchanged
<1>2. TypeOK'
  BY <1>1, ResultTold DEF IInv, TypeOK, AskTimesOut, ClientUnchanged, routerVars, ClientState
<1>3. \A d \in Clients : Kept(d) /\ Told(d)'
  <2>1. Kept(c) /\ Told(c)'
    BY <1>1, ResultTold
  <2> QED
    BY <1>1, <2>1, ResultTold, OthersKept DEF IInv
<1> QED
  BY <1>1, <1>2, <1>3, LessUnderWay, UnchangedQueues

\* A step after which client c waits no more, or not for an answer.
LEMMA ClientGivesUp ==
    ASSUME IInv, TypeOK', NEW c \in Clients, UNCHANGED <<up, executed, outcome>>,
           NEW pc \in {"refused", "closed"}, client[c].pc # "off",
           client' = [client EXCEPT ![c].pc = pc],
           UNCHANGED down \/ down' = [down EXCEPT ![c] = <<>>]
    PROVE  IInv'
<1>1. \A p \in Peers : Smaller(up'[p], up[p]) /\ Smaller(down'[p], down[p])
  BY UnchangedQueues, SmallerQueues
<1>2. client'[c].asked = client[c].asked /\ client'[c].pc = pc
      /\ \A d \in Clients : d # c => client'[d] = client[d]
  BY DEF IInv, TypeOK
<1>3. Kept(c) /\ Told(c)'
  BY <1>2 DEF IInv, Kept, Told
<1> QED
  BY <1>1, <1>2, <1>3, OthersKept, LessUnderWay DEF IInv

LEMMA ClientEndsKeeps ==
    ASSUME IInv, NEW c \in Clients,
           RegistrationFails(c) \/ AskRefused(c) \/ Disconnect(c)
    PROVE  IInv'
<1>1. PICK pc \in {"refused", "closed"} :
         /\ client' = [client EXCEPT ![c].pc = pc]
         /\ UNCHANGED down \/ down' = [down EXCEPT ![c] = <<>>]
  BY DEF RegistrationFails, AskRefused, Disconnect, Close
<1>2. client[c].pc # "off" /\ UNCHANGED <<up, outcome, routerVars, link, provider, executed>>
  BY DEF RegistrationFails, AskRefused, Disconnect, ClientUnchanged
<1>3. TypeOK'
  <2>1. <<>> \in Seq(Packets)
    BY UnchangedQueues, SmallerQueues DEF Smaller, Peers
  <2>2. down' \in [Peers -> Seq(Packets)]
    BY <1>1, <2>1, UnchangedQueues
  <2>3. client' \in [Clients -> ClientState]
    BY <1>1 DEF IInv, TypeOK, ClientState
  <2> QED
    BY <1>2, <2>2, <2>3 DEF IInv, TypeOK, routerVars, ClientState
<1> QED
  BY <1>1, <1>2, <1>3, ClientGivesUp

LEMMA NextIInv == ASSUME NoClientIsTarget, IInv, [Next]_vars PROVE IInv'
<1>1. CASE RouterStart \/ RouterKilled
  BY <1>1, RouterKeeps
<1>2. CASE \E p \in Peers : PeerStep(p) \/ ConnectionLost(p)
  BY <1>2, ConnectedKeeps, ConnectionLostKeeps, HandleRegistrationKeeps, HandlePassPacketKeeps
     DEF PeerStep
<1>3. CASE \E p \in Providers :
              ProviderStart(p) \/ Beat(p) \/ ProviderHandles(p) \/ ProviderKilled(p)
  BY <1>3, ProviderStartKeeps, BeatKeeps, ProviderIgnoresKeeps, ProviderAnswersKeeps,
     ProviderRejectsKeeps, InstrumentRaisesKeeps, ProviderFailsKeeps, ProviderKilledKeeps
     DEF ProviderHandles
<1>4. CASE \E c \in Clients : Connect(c) \/ ClientStep(c) \/ AskRefused(c) \/ Disconnect(c)
  BY <1>4, ConnectKeeps, AcknowledgedKeeps, AnsweredKeeps, AskTimesOutKeeps, ClientEndsKeeps
     DEF ClientStep
<1>5. CASE \E c \in Clients, target \in Targets, r \in Requests : ClientAsks(c, target, r)
  BY <1>5, ClientAsksKeeps
<1>6. CASE UNCHANGED vars
  <2>1. TypeOK' /\ UNCHANGED <<up, down, client, executed, outcome>>
    BY <1>6 DEF IInv, TypeOK, vars
  <2> QED
    BY <2>1, LessUnderWay, UnchangedQueues, KeptUnchanged DEF IInv
<1> QED
  BY <1>1, <1>2, <1>3, <1>4, <1>5, <1>6 DEF Next

\* Whatever is lost, killed or timed out: a client waits for the answer to its own last
\* request, and everything under way for it or about it agrees with what was performed.
THEOREM InductiveInvariant == ASSUME NoClientIsTarget PROVE Spec => []IInv
<1>1. IInv /\ [Next]_vars => IInv'
  BY NextIInv
<1> QED
  BY <1>1, InitIInv, PTL DEF Spec

-----------------------------------------------------------------------------
(* What follows from the invariant. *)

\* Whatever is lost, killed or timed out, every variable keeps its type.
THEOREM TypesHold == ASSUME NoClientIsTarget PROVE Spec => []TypeOK
<1>1. IInv => TypeOK
  BY DEF IInv
<1> QED
  BY <1>1, InductiveInvariant, PTL

\* A client that waits never takes an answer to an earlier request, or of another
\* client, for its own.
THEOREM OwnReplyHolds == ASSUME NoClientIsTarget PROVE Spec => []OwnReply
<1>1. IInv => OwnReply
  <2> SUFFICES ASSUME IInv, NEW c \in Clients, down[c] # <<>>
               PROVE  /\ Head(down[c]).ask = client[c].asked
                      /\ Head(down[c]).source \in Providers \cup {Router}
    BY DEF OwnReply
  <2>1. c \in Peers
    BY DEF Peers
  <2>2. ToClient(c, Head(down[c]))
    BY <2>1, FittingPackets, Taken DEF DownFits
  <2> QED
    BY <2>2 DEF ToClient, Pending
<1> QED
  BY <1>1, InductiveInvariant, PTL

-----------------------------------------------------------------------------
(* The remote calls that the messaging implements. *)

LEMMA InitRefines == Init => Call!Init
  BY MessagingAssumption, SMT DEF Init, Call!Init

\* The steps that neither issue nor perform nor conclude a call.
LEMMA Stutters ==
    ASSUME UNCHANGED <<executed, outcome>>,
           \A c \in Clients : client'[c].asked = client[c].asked
    PROVE  UNCHANGED Call!vars
  BY DEF Call!vars

LEMMA AsksRefines ==
    ASSUME IInv, NEW c \in Clients, NEW target, NEW r, ClientAsks(c, target, r)
    PROVE  Call!Issue(c)
<1> DEFINE issued == [d \in Clients |-> client[d].asked]
<1>1. client \in [Clients -> ClientState] /\ issued[c] \in 0..MaxAsks
  BY DEF IInv, TypeOK, ClientState
<1>2. issued[c] + 1 <= MaxAsks /\ client[c].pc = "ready" /\ UNCHANGED <<executed, outcome>>
      /\ client' = [client EXCEPT ![c] = [pc |-> "asking", asked |-> issued[c] + 1]]
  BY DEF ClientAsks, ClientUnchanged
<1>3. issued[c] < MaxAsks
  BY <1>1, <1>2, MessagingAssumption, SMT
<1>4. issued[c] > 0 => outcome[c][issued[c]] # "none"
  BY <1>2 DEF IInv, Told
<1>5. issued' = [issued EXCEPT ![c] = @ + 1]
  BY <1>1, <1>2
<1> QED
  BY <1>2, <1>3, <1>4, <1>5 DEF Call!Issue

LEMMA ExecutionRefines ==
    ASSUME IInv, NEW p \in Providers, down[p] # <<>>, Head(down[p]).request \in AllRequests,
           Execute(Head(down[p])), UNCHANGED <<client, outcome>>
    PROVE  \E c \in Clients, n \in 1..MaxAsks : Call!Perform(c, n)
<1>1. PICK c \in Clients, n \in 1..MaxAsks :
         /\ c = Head(down[p]).source /\ n = Head(down[p]).ask
         /\ n = client[c].asked /\ outcome[c][n] \in {"none", "timeout"}
         /\ executed[c][n] = 0
  BY ARequest DEF Pending, Request
<1>2. executed \in [Clients -> [1..MaxAsks -> Nat]]
  BY DEF IInv, TypeOK
<1>3. executed' = [executed EXCEPT ![c] = [executed[c] EXCEPT ![n] = 0 + 1]]
  BY <1>1, <1>2 DEF Execute
<1>4. n <= client[c].asked
  BY <1>1, MessagingAssumption, SMT
<1>5. executed' = [executed EXCEPT ![c][n] = 1] /\ n <= [d \in Clients |-> client[d].asked][c]
  BY <1>3, <1>4
<1>6. [d \in Clients |-> client[d].asked]' = [d \in Clients |-> client[d].asked]
  OBVIOUS
<1>7. Call!Perform(c, n)
  BY <1>1, <1>5, <1>6, Zenon DEF Call!Perform
<1> QED
  BY <1>7

LEMMA ResultRefines ==
    ASSUME IInv, NEW c \in Clients, client[c].pc = "asking", UNCHANGED executed,
           NEW result \in {"ok", "error", "timeout"},
           result = "ok" => down[c] # <<>> /\ Head(down[c]).intent # "ERROR",
           NEW pc, client' = [client EXCEPT ![c].pc = pc],
           outcome' = [outcome EXCEPT ![c][client[c].asked] = result]
    PROVE  Call!Conclude(c, result)
<1>1. c \in Peers /\ client[c].asked > 0 /\ outcome[c][client[c].asked] = "none"
  BY DEF IInv, Told, Peers
<1>2. result = "ok" => executed[c][client[c].asked] = 1
  <2> SUFFICES ASSUME result = "ok" PROVE executed[c][client[c].asked] = 1
    OBVIOUS
  <2>1. ToClient(c, Head(down[c]))
    BY <1>1, FittingPackets, UnchangedQueues, Taken DEF DownFits
  <2> QED
    BY <1>1, <2>1 DEF ToClient, Pending, Answer
<1>3. \A d \in Clients : client'[d].asked = client[d].asked
  BY DEF IInv, TypeOK
<1>4. [d \in Clients |-> client[d].asked][c] = client[c].asked
      /\ [d \in Clients |-> client[d].asked]' = [d \in Clients |-> client[d].asked]
  BY <1>3
<1> QED
  BY <1>1, <1>2, <1>4, Zenon DEF Call!Conclude

LEMMA NextRefines == ASSUME IInv, [Next]_vars PROVE [Call!Next]_Call!vars
<1>1. CASE RouterStart \/ RouterKilled \/ UNCHANGED vars
  BY <1>1, Stutters DEF RouterStart, RouterKilled, vars
<1>2. CASE \E p \in Peers : PeerStep(p) \/ ConnectionLost(p)
  BY <1>2, Stutters DEF PeerStep, ConnectionLost, Connected, HandleRegistration,
     HandlePassPacket, RouterUnchanged
<1>3. ASSUME NEW p \in Providers,
             ProviderStart(p) \/ Beat(p) \/ ProviderHandles(p) \/ ProviderKilled(p)
      PROVE  [Call!Next]_Call!vars
  <2>1. CASE ProviderStart(p) \/ Beat(p) \/ ProviderIgnores(p) \/ ProviderRejects(p)
                \/ ProviderKilled(p)
    BY <2>1, Stutters DEF ProviderStart, Beat, ProviderIgnores, ProviderRejects,
       ProviderKilled, ProviderUnchanged
  <2>2. CASE ProviderAnswers(p) \/ InstrumentRaises(p) \/ ProviderFails(p)
    <3>1. /\ down[p] # <<>> /\ Head(down[p]).request \in AllRequests
          /\ Execute(Head(down[p])) /\ UNCHANGED <<client, outcome>>
      BY <2>2 DEF ProviderAnswers, InstrumentRaises, ProviderFails, ProviderUnchanged,
         ProviderListens, AllRequests
    <3> QED
      BY <3>1, ExecutionRefines DEF Call!Next
  <2> QED
    BY <1>3, <2>1, <2>2 DEF ProviderHandles
<1>4. ASSUME NEW c \in Clients,
             Connect(c) \/ ClientStep(c) \/ AskRefused(c) \/ Disconnect(c)
      PROVE  [Call!Next]_Call!vars
  <2>1. CASE Connect(c) \/ Acknowledged(c) \/ RegistrationFails(c) \/ AskRefused(c)
                \/ Disconnect(c)
    <3>1. UNCHANGED <<executed, outcome>> /\ \E pc : client' = [client EXCEPT ![c].pc = pc]
      BY <2>1 DEF Connect, Acknowledged, RegistrationFails, AskRefused, Disconnect, Close,
         ClientUnchanged
    <3>2. \A d \in Clients : client'[d].asked = client[d].asked
      BY <3>1 DEF IInv, TypeOK
    <3> QED
      BY <3>1, <3>2, Stutters
  <2>2. CASE Answered(c) \/ AskTimesOut(c)
    <3>1. PICK result \in {"ok", "error", "timeout"}, pc \in {"ready", "timedout"} :
             /\ client[c].pc = "asking" /\ UNCHANGED executed
             /\ result = "ok" => down[c] # <<>> /\ Head(down[c]).intent # "ERROR"
             /\ client' = [client EXCEPT ![c].pc = pc]
             /\ outcome' = [outcome EXCEPT ![c][client[c].asked] = result]
      BY <2>2 DEF Answered, AskTimesOut, ClientReceives, ClientUnchanged
    <3> QED
      BY <3>1, ResultRefines DEF Call!Next
  <2> QED
    BY <1>4, <2>1, <2>2 DEF ClientStep
<1>5. CASE \E c \in Clients, target \in Targets, r \in Requests : ClientAsks(c, target, r)
  BY <1>5, AsksRefines DEF Call!Next
<1> QED
  BY <1>1, <1>2, <1>3, <1>4, <1>5 DEF Next

\* A request to an instrument is a remote call: performed at most once, never after its
\* answer was received, and answered "ok" only when it was performed.
THEOREM RemoteCallImplemented == ASSUME NoClientIsTarget PROVE Spec => ImplementsRemoteCall
<1>1. IInv /\ [Next]_vars => [Call!Next]_Call!vars
  BY NextRefines
<1> QED
  BY <1>1, InitRefines, InductiveInvariant, PTL DEF Spec, ImplementsRemoteCall, Call!Spec

=============================================================================
