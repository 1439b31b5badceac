----------------------- MODULE TwoPlayerDeviceProofs ------------------------
(***************************************************************************)
(* What two players read from their device, for any number of runs that    *)
(* come and go, fail anywhere, and get out of step.                        *)
(***************************************************************************)
EXTENDS TwoPlayerDevice, TLAPS

\* The runs that hold a slot: one that has failed never gives it back.
Holds(u) == user[u].pc \notin {"off", "left"}

\* Each slot has one holder; the device counts for a run that waits for it or has given
\* it up; a run whose plates are set, and who is not to move them before it has read, has them in place.
Slotted ==
    /\ \A u \in Users :
          /\ Holds(u) => Slot(u) \in players
          /\ user[u].pc = "measuring" => busy = u
          /\ busy = u => user[u].pc \in {"measuring", "failed"}
          /\ user[u].pc \in {"settled", "measuring", "submitted"} => plates[Slot(u)] = Here(u)
          /\ user[u].pc = "off" => \A k \in 1..Pairs : got[u][k].kind = "unread"
    /\ \A u, v \in Users : Holds(u) /\ Holds(v) /\ Slot(u) = Slot(v) => u = v

\* What the device counts, or has counted, for a run that has submitted was in that
\* run's own setting.
OwnCounts ==
    sound => \A u \in Users :
        /\ user[u].pc \in {"measuring", "submitted"} /\ busy # NoUser =>
              begun[Slot(u)] = Here(u)
        /\ user[u].pc = "submitted" /\ busy = NoUser /\ submissions = Slots =>
              value[Slot(u)] = Here(u)

\* The pairs come in rounds: after the last one, the first of the next two players.
NextRound(k) == IF k = Pairs THEN 1 ELSE k + 1

Position(u) == IF user[u].pc = "done" THEN 1 ELSE Here(u)

\* The submissions of which the counts have still to be read.
Unread == submissions \ value_gathered

\* The state of the device in round k: a player that has read is a round ahead of one
\* that has not, a slot that is free is where a new player starts, and what has been
\* submitted was with the plates in place.
InRound(k) ==
    /\ value_gathered # Slots
    /\ value_gathered # {} => submissions = Slots
    /\ \A u \in Users : Holds(u) =>
          /\ user[u].pc # "failed" =>
                Position(u) = IF Slot(u) \in value_gathered THEN NextRound(k) ELSE k
          /\ user[u].pc \in {"measuring", "submitted"} => Slot(u) \in Unread
          /\ user[u].pc \in {"moving", "turning", "settled", "done"} => Slot(u) \notin Unread
    /\ \A s \in Slots \ players :
          s \notin Unread /\ k = IF s \in value_gathered THEN Pairs ELSE 1
    /\ \A s \in Unread : plates[s] = k
    /\ busy # NoUser => Unread = Slots /\ begun = plates
    /\ busy = NoUser /\ submissions = Slots => value = [s \in Slots |-> k]

\* A run that is done and whose submission is still to be read has been told that the
\* device was not ready.
DoneInTime ==
    \A u \in Users :
        user[u].pc = "done" /\ Slot(u) \in Unread => got[u][Pairs].kind = "notready"

InStep == lockstep => sound /\ \E k \in 1..Pairs : InRound(k)

IInv ==
    /\ TypeOK
    /\ Slotted
    /\ OwnCounts
    /\ InStep
    /\ OwnPlatesInPlace
    /\ BothPlatesInPlace
    /\ DoneInTime
    /\ LeftBehind

-----------------------------------------------------------------------------
LEMMA InitIInv == Init => IInv
<1> SUFFICES ASSUME Init PROVE IInv
  OBVIOUS
<1>1. TypeOK
  BY TwoPlayerAssumption, SMT DEF Init, TypeOK, Counts, NoCounts, Reading, Slots
<1>2. Slotted /\ OwnCounts /\ OwnPlatesInPlace /\ BothPlatesInPlace
      /\ DoneInTime /\ LeftBehind
  BY TwoPlayerAssumption
     DEF DoneInTime, LeftBehind, Init, Slotted, Holds, OwnCounts, OwnPlatesInPlace, BothPlatesInPlace, Reading
<1>3. 1 \in 1..Pairs /\ InRound(1)
  BY TwoPlayerAssumption, SMT DEF Init, InRound, Holds, Unread, Slots
<1> QED
  BY <1>1, <1>2, <1>3 DEF IInv, InStep, Init

PCs == {"off", "moving", "turning", "settled", "measuring", "submitted", "done", "left",
        "failed"}

UserStates == [pc: PCs, slot: Slots, pair: 1..Pairs]

\* A run that goes somewhere keeps its slot and its pair, and the others are where
\* they were.
LEMMA Goes ==
    ASSUME TypeOK, NEW u \in Users, NEW pc \in PCs, Goto(u, pc)
    PROVE  /\ user' \in [Users -> UserStates]
           /\ user'[u].pc = pc
           /\ \A v \in Users : Slot(v)' = Slot(v) /\ Here(v)' = Here(v)
           /\ \A v \in Users : v # u => user'[v] = user[v]
<1>1. user \in [Users -> UserStates]
  BY DEF TypeOK, UserStates, PCs
<1>2. user' \in [Users -> UserStates]
  BY <1>1 DEF Goto, UserStates
<1>3. user'[u].pc = pc /\ \A v \in Users : Slot(v)' = Slot(v) /\ Here(v)' = Here(v)
  BY <1>1 DEF Goto, UserStates, Slot, Here
<1>4. \A v \in Users : v # u => user'[v] = user[v]
  BY <1>1 DEF Goto
<1> QED
  BY <1>2, <1>3, <1>4

\* What a run does when the device has counted for it.
LEMMA Hears ==
    ASSUME TypeOK, NEW u \in Users, MeasureCorrelation(u)
    PROVE  \E pc \in PCs :
              /\ Goto(u, pc)
              /\ user[u].pc = "measuring" => pc = "submitted"
              /\ user[u].pc # "measuring" => pc = user[u].pc
<1>1. user[u].pc \in PCs
  BY DEF TypeOK, PCs
<1>2. user' = [user EXCEPT ![u].pc =
                  IF user[u].pc = "measuring" THEN "submitted" ELSE user[u].pc]
  BY DEF MeasureCorrelation, TypeOK
<1> QED
  BY <1>1, <1>2 DEF Goto, PCs

\* A run that reads goes to its next pair, or is done.
LEMMA ReadsOn ==
    ASSUME TypeOK, NEW u \in Users, NEW reading, Reads(u, reading),
           reading \in [kind: {"unread", "notready", "counts"}, counts: Counts]
    PROVE  /\ user' \in [Users -> UserStates]
           /\ IF LastPair(u) THEN user'[u].pc = "done" /\ user'[u].pair = user[u].pair
                             ELSE user'[u].pc = "moving" /\ user'[u].pair = user[u].pair + 1
           /\ \A v \in Users : Slot(v)' = Slot(v)
           /\ \A v \in Users : v # u => user'[v] = user[v]
           /\ got' \in [Users -> [1..Pairs ->
                 [kind: {"unread", "notready", "counts"}, counts: Counts]]]
           /\ \A v \in Users, k \in 1..Pairs :
                 got'[v][k] = IF v = u /\ k = Here(u) THEN reading ELSE got[v][k]
<1>1. user \in [Users -> UserStates]
      /\ got \in [Users -> [1..Pairs ->
                 [kind: {"unread", "notready", "counts"}, counts: Counts]]]
  BY DEF TypeOK, UserStates, PCs
<1>2. Here(u) \in 1..Pairs /\ got[u] \in [1..Pairs ->
                 [kind: {"unread", "notready", "counts"}, counts: Counts]]
  BY <1>1 DEF Here, UserStates
<1>3. got' = [got EXCEPT ![u] = [got[u] EXCEPT ![Here(u)] = reading]]
  BY DEF Reads
<1>4. /\ user'[u].pc = IF LastPair(u) THEN "done" ELSE "moving"
      /\ user'[u].pair = IF LastPair(u) THEN Here(u) ELSE Here(u) + 1
      /\ \A v \in Users : Slot(v)' = Slot(v)
      /\ \A v \in Users : v # u => user'[v] = user[v]
  <2>1. CASE LastPair(u)
    BY <1>1, <2>1 DEF Reads, UserStates, Slot, Here
  <2>2. CASE ~LastPair(u)
    BY <1>1, <2>2 DEF Reads, UserStates, Slot, Here
  <2> QED
    BY <2>1, <2>2
<1>5. ~LastPair(u) => Here(u) + 1 \in 1..Pairs
  BY <1>2, TwoPlayerAssumption, SMT DEF LastPair
<1>6. user' \in [Users -> UserStates]
  <2>1. CASE LastPair(u)
    BY <1>1, <2>1 DEF Reads, UserStates, PCs
  <2>2. CASE ~LastPair(u)
    BY <1>1, <1>5, <2>2 DEF Reads, UserStates, PCs, Here
  <2> QED
    BY <2>1, <2>2
<1>7. /\ got' \in [Users -> [1..Pairs ->
              [kind: {"unread", "notready", "counts"}, counts: Counts]]]
      /\ \A v \in Users, k \in 1..Pairs :
              got'[v][k] = IF v = u /\ k = Here(u) THEN reading ELSE got[v][k]
  BY <1>1, <1>2, <1>3
<1> QED
  BY <1>4, <1>6, <1>7 DEF Here

LEMMA TypeStep == ASSUME TypeOK, NEW u \in Users, UserStep(u) PROVE TypeOK'
<1>1. user \in [Users -> UserStates] /\ NoCounts \in Counts /\ begun \in Counts
  <2>1. 0 \in 0..Pairs
    BY TwoPlayerAssumption, SMT
  <2> QED
    BY <2>1 DEF TypeOK, UserStates, PCs, NoCounts, Counts
<1>2. Slot(u) \in Slots /\ Here(u) \in 1..Pairs /\ Here(u) \in 0..Pairs /\ 0 \in 0..Pairs
      /\ 1 \in 1..Pairs
  <2>1. Slot(u) \in Slots /\ Here(u) \in 1..Pairs
    BY <1>1 DEF UserStates, Slot, Here
  <2> QED
    BY <2>1, TwoPlayerAssumption, SMT
<1>3. CASE AddPlayer(u)
  <2>1. user' \in [Users -> UserStates] /\ players' \subseteq Slots
    BY <1>1, <1>2, <1>3 DEF AddPlayer, FirstFree, Slots, UserStates, PCs, TypeOK
  <2> QED
    BY <1>3, <2>1 DEF TypeOK, AddPlayer, UserStates, PCs
<1>4. CASE TurnHwp(u) \/ TurnQwp(u)
  <2>1. user' \in [Users -> UserStates]
    BY <1>4, Goes DEF TurnHwp, TurnQwp, Turn, PCs
  <2>2. plates' \in [Slots -> 0..Pairs]
    BY <1>2, <1>4 DEF TypeOK, TurnHwp, TurnQwp, Turn
  <2> QED
    BY <1>4, <2>1, <2>2 DEF TypeOK, TurnHwp, TurnQwp, Turn, device, UserStates, PCs
<1>5. CASE Submit(u)
  <2>1. user' \in [Users -> UserStates]
    BY <1>5, Goes DEF Submit, PCs
  <2>2. busy' \in Users \cup {NoUser} /\ begun' \in Counts /\ submissions' \subseteq Slots
        /\ lockstep' \in BOOLEAN
    BY <1>2, <1>5 DEF Submit, TypeOK, Counts
  <2> QED
    BY <1>5, <2>1, <2>2 DEF TypeOK, Submit, UserStates, PCs
<1>6. CASE MeasureCorrelation(u) \/ MeasureRaises(u)
  <2>1. user' \in [Users -> UserStates]
    BY <1>6, Goes, Hears DEF MeasureRaises, PCs
  <2>2. value' \in Counts /\ begun' \in Counts /\ busy' = NoUser
    BY <1>1, <1>2, <1>6 DEF MeasureCorrelation, MeasureRaises, TypeOK, Counts
  <2> QED
    BY <1>6, <2>1, <2>2 DEF TypeOK, MeasureCorrelation, MeasureRaises, UserStates, PCs
<1>7. CASE GetCounts(u)
  <2>1. PICK reading \in [kind: {"unread", "notready", "counts"}, counts: Counts] :
           Reads(u, reading)
    BY <1>1, <1>7 DEF GetCounts, Reading, TypeOK
  <2>2. submissions' \subseteq Slots /\ value_gathered' \subseteq Slots /\ value' \in Counts
        /\ lockstep' \in BOOLEAN
    BY <1>1, <1>2, <1>7 DEF GetCounts, Reset, TypeOK
  <2> QED
    BY <1>7, <2>1, <2>2, ReadsOn DEF TypeOK, GetCounts, UserStates, PCs
<1>8. CASE RemovePlayer(u)
  <2>1. user' \in [Users -> UserStates]
    BY <1>8, Goes DEF RemovePlayer, PCs
  <2> QED
    BY <1>8, <2>1 DEF TypeOK, RemovePlayer, UserStates, PCs
<1>9. CASE RunFails(u)
  <2>1. user' \in [Users -> UserStates]
    BY <1>9, Goes DEF RunFails, PCs
  <2> QED
    BY <1>9, <2>1 DEF TypeOK, RunFails, device, UserStates, PCs
<1> QED
  BY <1>3, <1>4, <1>5, <1>6, <1>7, <1>8, <1>9 DEF UserStep

\* A new player gets a free slot and its first pair.
LEMMA NewPlayer ==
    ASSUME TypeOK, NEW u \in Users, AddPlayer(u)
    PROVE  /\ user'[u].pc = "moving" /\ Here(u)' = 1
           /\ Slot(u)' \in Slots \ players /\ players' = players \cup {Slot(u)'}
           /\ \A v \in Users : v # u => user'[v] = user[v]
<1>1. FirstFree \in Slots \ players
  BY DEF AddPlayer, FirstFree, Slots, TypeOK
<1>2. user'[u].pc = "moving" /\ Here(u)' = 1 /\ Slot(u)' = FirstFree
      /\ \A v \in Users : v # u => user'[v] = user[v]
  BY DEF AddPlayer, Here, Slot, TypeOK
<1> QED
  BY <1>1, <1>2 DEF AddPlayer

LEMMA SlottedStep ==
    ASSUME TypeOK, Slotted, NEW u \in Users, UserStep(u)
    PROVE  Slotted'
<1>1. CASE AddPlayer(u)
  <2>1. /\ user'[u].pc = "moving" /\ Slot(u)' \notin players /\ players' = players \cup {Slot(u)'}
        /\ \A v \in Users : v # u => user'[v] = user[v]
        /\ busy' = busy /\ plates' = plates /\ got' = got /\ busy = NoUser
    BY <1>1, NewPlayer DEF AddPlayer
  <2>2. \A v \in Users : v # u =>
          /\ Holds(v)' = Holds(v) /\ Slot(v)' = Slot(v) /\ Here(v)' = Here(v)
          /\ user'[v].pc = user[v].pc
    BY <2>1 DEF Holds, Slot, Here
  <2> QED
    BY <2>1, <2>2, TwoPlayerAssumption DEF Slotted
<1>2. ASSUME NEW pc \in PCs, user[u].pc \notin {"off", "left"}, Goto(u, pc),
             pc \notin {"off", "left"}, players' = players, got' = got,
             pc = "measuring" => busy' = u, busy' = u => pc \in {"measuring", "failed"},
             \A v \in Users : v # u => (busy' = v <=> busy = v),
             \A s \in Slots : s # Slot(u) => plates'[s] = plates[s],
             pc \in {"settled", "measuring", "submitted"} => plates'[Slot(u)] = Here(u)
      PROVE  Slotted'
  <2>1. /\ user'[u].pc = pc
        /\ \A v \in Users : Slot(v)' = Slot(v) /\ Here(v)' = Here(v) /\ Slot(v) \in Slots
        /\ \A v \in Users : v # u => user'[v] = user[v]
    BY <1>2, Goes DEF TypeOK, Slot
  <2>2. \A v \in Users : v # u => user'[v].pc = user[v].pc
    BY <2>1
  <2>3. \A v \in Users : Holds(v)' <=> Holds(v)
    BY <1>2, <2>1, <2>2 DEF Holds
  <2>4. ASSUME NEW v \in Users, user'[v].pc \in {"settled", "measuring", "submitted"}, v # u
        PROVE  plates'[Slot(v)] = Here(v)
    <3>1. Holds(u) /\ Holds(v)
      BY <1>2, <2>2, <2>4 DEF Holds
    <3>2. Slot(v) # Slot(u) /\ plates[Slot(v)] = Here(v)
      BY <2>2, <2>4, <3>1 DEF Slotted
    <3> QED
      BY <1>2, <2>1, <3>2
  <2> QED
    BY <1>2, <2>1, <2>2, <2>3, <2>4 DEF Slotted
<1>3. CASE TurnHwp(u)
  <2>1. user[u].pc = "moving" /\ Goto(u, "turning") /\ UNCHANGED <<players, got, busy>>
        /\ busy # u /\ plates' = [plates EXCEPT ![Slot(u)] = 0]
    BY <1>3 DEF TurnHwp, Turn, device, Slotted
  <2> QED
    BY <1>2, <2>1 DEF PCs, TypeOK
<1>4. CASE TurnQwp(u)
  <2>1. user[u].pc = "turning" /\ Goto(u, "settled") /\ UNCHANGED <<players, got, busy>>
        /\ busy # u /\ plates' = [plates EXCEPT ![Slot(u)] = Here(u)] /\ Slot(u) \in Slots
    BY <1>4 DEF TurnQwp, Turn, device, Slotted, TypeOK, Slot
  <2> QED
    BY <1>2, <2>1 DEF PCs, TypeOK
<1>5. CASE Submit(u)
  <2>1. user[u].pc = "settled" /\ UNCHANGED <<players, got, plates>> /\ busy = NoUser
        /\ plates[Slot(u)] = Here(u) /\ NoUser \notin Users
    BY <1>5, TwoPlayerAssumption DEF Submit, Slotted
  <2>2. CASE busy' = u /\ Goto(u, "measuring")
    BY <1>2, <2>1, <2>2 DEF PCs
  <2>3. CASE busy' = busy /\ Goto(u, "submitted")
    BY <1>2, <2>1, <2>3 DEF PCs
  <2> QED
    BY <1>5, <2>2, <2>3 DEF Submit
<1>6. CASE MeasureCorrelation(u) \/ MeasureRaises(u)
  <2>1. /\ user[u].pc \in {"measuring", "failed"} /\ UNCHANGED <<players, got, plates>>
        /\ busy = u /\ NoUser \notin Users /\ busy' = NoUser
        /\ user[u].pc = "measuring" => plates[Slot(u)] = Here(u)
    BY <1>6, TwoPlayerAssumption DEF MeasureCorrelation, MeasureRaises, Slotted
  <2>2. PICK pc \in {"submitted", "failed"} :
           Goto(u, pc) /\ (pc = "submitted" => user[u].pc = "measuring")
    BY <1>6, <2>1, Hears DEF MeasureRaises
  <2> QED
    BY <1>2, <2>1, <2>2 DEF PCs
<1>7. CASE GetCounts(u)
  <2>1. PICK reading \in [kind: {"unread", "notready", "counts"}, counts: Counts] :
           Reads(u, reading)
    <3>1. NoCounts \in Counts
      BY TwoPlayerAssumption, SMT DEF NoCounts, Counts
    <3> QED
      BY <1>7, <3>1 DEF GetCounts, Reading, TypeOK
  <2>2. /\ user[u].pc = "submitted" /\ user'[u].pc \in {"moving", "done"}
        /\ \A v \in Users : Slot(v)' = Slot(v)
        /\ \A v \in Users : v # u => user'[v] = user[v] /\ Here(v)' = Here(v)
        /\ \A v \in Users : v # u => \A k \in 1..Pairs : got'[v][k] = got[v][k]
        /\ UNCHANGED <<players, busy, plates>> /\ busy = NoUser
    BY <1>7, <2>1, ReadsOn DEF GetCounts, Here
  <2>3. \A v \in Users : Holds(v)' <=> Holds(v)
    BY <2>2 DEF Holds
  <2> QED
    BY <2>2, <2>3, TwoPlayerAssumption DEF Slotted
<1>8. CASE RemovePlayer(u)
  <2>1. /\ user[u].pc = "done" /\ user'[u].pc = "left"
        /\ \A v \in Users : Slot(v)' = Slot(v) /\ Here(v)' = Here(v)
        /\ \A v \in Users : v # u => user'[v] = user[v]
        /\ players' = players \ {Slot(u)} /\ UNCHANGED <<busy, plates, got>>
    BY <1>8, Goes DEF RemovePlayer, PCs
  <2>2. \A v \in Users : Holds(v)' => Holds(v) /\ v # u
    BY <2>1 DEF Holds
  <2>3. Holds(u)
    BY <2>1 DEF Holds
  <2> QED
    BY <2>1, <2>2, <2>3 DEF Slotted
<1>9. CASE RunFails(u)
  <2>1. /\ user[u].pc \in {"moving", "turning", "settled", "measuring", "submitted", "done"}
        /\ Goto(u, "failed") /\ UNCHANGED <<players, busy, plates, got>>
    BY <1>9 DEF RunFails, device, Slotted
  <2> QED
    BY <1>2, <2>1 DEF PCs
<1> QED
  BY <1>1, <1>3, <1>4, <1>5, <1>6, <1>7, <1>8, <1>9 DEF UserStep

\* A step that keeps slots, pairs and what was read, in which at most run u goes on.
LEMMA OwnCountsKept ==
    ASSUME TypeOK, OwnCounts, NEW u \in Users, NEW pc \in PCs, Goto(u, pc),
           pc \notin {"measuring", "submitted"},
           UNCHANGED <<busy, begun, submissions, value, sound>>
    PROVE  OwnCounts'
<1>1. /\ user'[u].pc = pc
      /\ \A v \in Users : Slot(v)' = Slot(v) /\ Here(v)' = Here(v)
      /\ \A v \in Users : v # u => user'[v].pc = user[v].pc
  BY Goes
<1> QED
  BY <1>1 DEF OwnCounts

LEMMA OwnCountsStep ==
    ASSUME TypeOK, Slotted, OwnCounts, NEW u \in Users, UserStep(u)
    PROVE  OwnCounts'
<1>1. \A v \in Users : Slot(v) \in Slots
  BY DEF TypeOK, Slot
<1>2. NoUser \notin Users
  BY TwoPlayerAssumption
<1>3. CASE AddPlayer(u)
  <2>1. /\ user'[u].pc = "moving" /\ UNCHANGED <<busy, begun, submissions, value, sound>>
        /\ \A v \in Users : v # u => user'[v] = user[v]
    BY <1>3, NewPlayer DEF AddPlayer
  <2> QED
    BY <2>1 DEF OwnCounts, Slot, Here
<1>4. CASE TurnHwp(u) \/ TurnQwp(u) \/ RemovePlayer(u) \/ RunFails(u)
  <2>1. PICK pc \in PCs : Goto(u, pc) /\ pc \notin {"measuring", "submitted"}
    BY <1>4 DEF TurnHwp, TurnQwp, Turn, RemovePlayer, RunFails, PCs
  <2>2. UNCHANGED <<busy, begun, submissions, value, sound>>
    BY <1>4 DEF TurnHwp, TurnQwp, Turn, RemovePlayer, RunFails, device
  <2> QED
    BY <2>1, <2>2, OwnCountsKept
<1>5. CASE Submit(u)
  <2>1. /\ \A v \in Users : Slot(v)' = Slot(v) /\ Here(v)' = Here(v)
        /\ \A v \in Users : v # u => user'[v].pc = user[v].pc
        /\ user'[u].pc \in {"measuring", "submitted"} /\ user[u].pc = "settled"
        /\ busy = NoUser /\ UNCHANGED <<value, sound>>
        /\ submissions' = submissions \cup {Slot(u)}
    BY <1>5, Goes DEF Submit, PCs
  <2>2. \A v \in Users :
          user[v].pc \in {"settled", "measuring", "submitted"} => plates[Slot(v)] = Here(v)
    BY DEF Slotted
  <2>3. CASE BothSubmitted(u)
    <3>1. begun' = plates /\ busy' = u
      BY <1>5, <2>3 DEF Submit
    <3> QED
      BY <1>2, <2>1, <2>2, <3>1 DEF OwnCounts
  <2>4. CASE ~BothSubmitted(u)
    <3>1. busy' = NoUser /\ submissions' # Slots
      BY <1>5, <2>1, <2>4 DEF Submit, BothSubmitted
    <3> QED
      BY <1>2, <2>1, <3>1 DEF OwnCounts
  <2> QED
    BY <2>3, <2>4
<1>6. CASE MeasureCorrelation(u)
  <2>1. /\ \A v \in Users : Slot(v)' = Slot(v) /\ Here(v)' = Here(v)
        /\ \A v \in Users : v # u => user'[v].pc = user[v].pc
        /\ user'[u].pc = "submitted" => user[u].pc \in {"measuring", "submitted"}
        /\ busy = u /\ busy' = NoUser /\ sound' = sound
        /\ value' = [s \in Slots |-> IF begun[s] = plates[s] THEN plates[s] ELSE 0]
    BY <1>6, Goes, Hears DEF MeasureCorrelation
  <2>2. \A v \in Users : user[v].pc \in {"measuring", "submitted"} =>
          plates[Slot(v)] = Here(v) /\ (sound => begun[Slot(v)] = Here(v))
    BY <1>2, <2>1 DEF Slotted, OwnCounts
  <2>3. \A v \in Users : sound /\ user[v].pc \in {"measuring", "submitted"} =>
          value'[Slot(v)] = Here(v)
    BY <1>1, <2>1, <2>2
  <2> QED
    BY <2>1, <2>3 DEF OwnCounts
<1>7. CASE MeasureRaises(u)
  BY <1>7 DEF MeasureRaises, OwnCounts
<1>8. CASE GetCounts(u)
  <2>1. PICK reading \in [kind: {"unread", "notready", "counts"}, counts: Counts] :
           Reads(u, reading)
    <3>1. NoCounts \in Counts
      BY TwoPlayerAssumption, SMT DEF NoCounts, Counts
    <3> QED
      BY <1>8, <3>1 DEF GetCounts, Reading, TypeOK
  <2>2. /\ user'[u].pc \in {"moving", "done"}
        /\ \A v \in Users : v # u => user'[v] = user[v]
        /\ UNCHANGED <<busy, sound>> /\ busy = NoUser
    BY <1>8, <2>1, ReadsOn DEF GetCounts
  <2>3. UNCHANGED <<submissions, value>> \/ submissions' # Slots
    BY <1>8 DEF GetCounts, Reset, Slots
  <2> QED
    BY <2>2, <2>3 DEF OwnCounts, Slot, Here
<1> QED
  BY <1>3, <1>4, <1>5, <1>6, <1>7, <1>8 DEF UserStep

LEMMA OwnPlatesStep ==
    ASSUME TypeOK, Slotted, OwnCounts, OwnPlatesInPlace, NEW u \in Users, UserStep(u)
    PROVE  OwnPlatesInPlace'
<1>1. CASE AddPlayer(u)
  <2>1. /\ got' = got /\ sound' = sound /\ \A k \in 1..Pairs : got[u][k].kind = "unread"
        /\ \A v \in Users : v # u => user'[v] = user[v]
    BY <1>1, NewPlayer DEF AddPlayer, Slotted
  <2> QED
    BY <2>1 DEF OwnPlatesInPlace, Slot
<1>2. CASE GetCounts(u)
  <2>1. PICK reading \in [kind: {"unread", "notready", "counts"}, counts: Counts] :
           /\ Reads(u, reading)
           /\ reading.kind = "counts" => submissions = Slots /\ reading.counts = value
    <3>1. NoCounts \in Counts
      BY TwoPlayerAssumption, SMT DEF NoCounts, Counts
    <3> QED
      BY <1>2, <3>1 DEF GetCounts, Reading, TypeOK
  <2>2. sound /\ reading.kind = "counts" => reading.counts[Slot(u)] = Here(u)
    BY <1>2, <2>1 DEF GetCounts, OwnCounts
  <2>3. /\ sound' = sound /\ \A v \in Users : Slot(v)' = Slot(v)
        /\ \A v \in Users, k \in 1..Pairs :
              got'[v][k] = IF v = u /\ k = Here(u) THEN reading ELSE got[v][k]
    BY <1>2, <2>1, ReadsOn DEF GetCounts
  <2> QED
    BY <2>2, <2>3 DEF OwnPlatesInPlace
<1>3. CASE TurnHwp(u) \/ TurnQwp(u) \/ Submit(u) \/ MeasureCorrelation(u)
              \/ MeasureRaises(u) \/ RemovePlayer(u) \/ RunFails(u)
  <2>1. (sound' => sound) /\ got' = got /\ \E pc \in PCs : Goto(u, pc)
    BY <1>3, Hears DEF TurnHwp, TurnQwp, Turn, Submit, MeasureCorrelation, MeasureRaises,
       RemovePlayer, RunFails, device, PCs
  <2>2. \A v \in Users : Slot(v)' = Slot(v)
    BY <2>1, Goes
  <2> QED
    BY <2>1, <2>2 DEF OwnPlatesInPlace
<1> QED
  BY <1>1, <1>2, <1>3 DEF UserStep

-----------------------------------------------------------------------------
(* The rounds. *)

LEMMA Rounds ==
    ASSUME NEW k \in 1..Pairs
    PROVE  /\ NextRound(k) \in 1..Pairs /\ (NextRound(k) = 1 /\ Pairs # 1 => k = Pairs)
           /\ NextRound(Pairs) = 1
           /\ k # Pairs => NextRound(k) = k + 1
  BY TwoPlayerAssumption, SMT DEF NextRound

\* Who is not held up by a submission of its own may fail, turn its plates or leave the
\* round as it is.
LEMMA SameRound ==
    ASSUME TypeOK, Slotted, NEW k \in 1..Pairs, InRound(k), NEW u \in Users, NEW pc \in PCs,
           Goto(u, pc), UNCHANGED <<players, submissions, value_gathered, value, busy, begun>>,
           user[u].pc \notin {"off", "left"},
           \/ pc = "failed" /\ UNCHANGED plates
           \/ /\ pc \in {"turning", "settled"} /\ user[u].pc \in {"moving", "turning"}
              /\ busy = NoUser \/ Unread = Slots
              /\ \A s \in Slots : s # Slot(u) => plates'[s] = plates[s]
    PROVE  InRound(k)'
<1>1. /\ user'[u].pc = pc
      /\ \A v \in Users : Slot(v)' = Slot(v) /\ Here(v)' = Here(v) /\ Slot(v) \in Slots
      /\ \A v \in Users : v # u => user'[v].pc = user[v].pc
  BY Goes DEF TypeOK, Slot
<1>2. Unread' = Unread /\ Unread \subseteq Slots
  BY DEF Unread, TypeOK
<1>3. \A v \in Users : (Holds(v)' <=> Holds(v)) /\ (v # u => Position(v)' = Position(v))
  BY <1>1 DEF Holds, Position
<1>4. pc # "failed" => Position(u)' = Position(u) /\ Slot(u) \notin Unread
  BY <1>1 DEF Position, InRound, Holds
<1>5. \A s \in Unread : plates'[s] = plates[s]
  BY <1>2, <1>4
<1>6. busy # NoUser => plates' = plates
  BY <1>1, <1>4
<1> QED
  BY <1>1, <1>2, <1>3, <1>4, <1>5, <1>6 DEF InRound

LEMMA InRoundStep ==
    ASSUME TypeOK, Slotted, NEW k \in 1..Pairs, InRound(k), NEW u \in Users, UserStep(u),
           sound, lockstep'
    PROVE  \E j \in 1..Pairs : InRound(j)'
<1>1. Slot(u) \in Slots /\ \A v \in Users : Slot(v) \in Slots
  BY DEF TypeOK, Slot
<1>2. NoUser \notin Users
  BY TwoPlayerAssumption
<1>3. Unread \subseteq Slots /\ submissions \subseteq Slots /\ value_gathered \subseteq submissions
  BY DEF TypeOK, Unread, InRound
<1>4. CASE AddPlayer(u)
  <2>1. /\ user'[u].pc = "moving" /\ Here(u)' = 1 /\ Slot(u)' \in Slots \ players
        /\ players' = players \cup {Slot(u)'} /\ \A v \in Users : v # u => user'[v] = user[v]
        /\ UNCHANGED <<submissions, value_gathered, value, busy, begun, plates>>
    BY <1>4, NewPlayer DEF AddPlayer
  <2>2. /\ Position(u)' = IF Slot(u)' \in value_gathered THEN NextRound(k) ELSE k
        /\ Slot(u)' \notin Unread
    BY <2>1, Rounds DEF InRound, Position
  <2>3. \A v \in Users : v # u =>
          Holds(v)' = Holds(v) /\ Slot(v)' = Slot(v) /\ Position(v)' = Position(v)
    BY <2>1 DEF Holds, Slot, Position, Here
  <2>4. InRound(k)'
    BY <2>1, <2>2, <2>3 DEF InRound, Unread
  <2> QED
    BY <2>4
<1>5. CASE TurnHwp(u) \/ TurnQwp(u) \/ RunFails(u)
  <2>1. PICK pc \in PCs :
          /\ Goto(u, pc) /\ user[u].pc \notin {"off", "left"}
          /\ UNCHANGED <<players, submissions, value_gathered, value, busy, begun>>
          /\ \/ pc = "failed" /\ UNCHANGED plates
             \/ /\ pc \in {"turning", "settled"} /\ user[u].pc \in {"moving", "turning"}
                /\ \A s \in Slots : s # Slot(u) => plates'[s] = plates[s]
    BY <1>5 DEF TurnHwp, TurnQwp, Turn, RunFails, device, PCs, TypeOK
  <2>2. busy = NoUser \/ Unread = Slots
    BY DEF InRound
  <2> QED
    BY <2>1, <2>2, SameRound
<1>6. CASE Submit(u)
  <2>1. /\ \A v \in Users : Slot(v)' = Slot(v) /\ Here(v)' = Here(v)
        /\ \A v \in Users : v # u => user'[v].pc = user[v].pc
        /\ user'[u].pc \in {"measuring", "submitted"} /\ user[u].pc = "settled"
        /\ busy = NoUser /\ UNCHANGED <<players, value_gathered, value, plates>>
        /\ submissions' = submissions \cup {Slot(u)} /\ Slot(u) \notin value_gathered
    BY <1>6, Goes DEF Submit, PCs
  <2>2. Holds(u) /\ Slot(u) \notin Unread /\ Position(u) = k /\ Here(u) = k
        /\ plates[Slot(u)] = k
    BY <2>1 DEF Holds, InRound, Position, Slotted
  <2>3. \A v \in Users : (Holds(v)' <=> Holds(v)) /\ Position(v)' = Position(v)
    BY <2>1 DEF Holds, Position
  <2>4. value_gathered = {} /\ Slot(u) \notin submissions /\ submissions # Slots
    BY <1>1, <2>1, <2>2 DEF Unread, InRound
  <2>5. Unread' = Unread \cup {Slot(u)} /\ Unread = submissions /\ Unread' = submissions'
    BY <2>1, <2>4 DEF Unread
  <2>6. \A v \in Users : v # u /\ Holds(v) => Slot(v) # Slot(u)
    BY <2>2 DEF Slotted
  <2>7. \A s \in Unread' : plates'[s] = k
    BY <2>1, <2>2, <2>5 DEF InRound
  <2>8. /\ busy' # NoUser => Unread' = Slots /\ begun' = plates'
        /\ busy' = NoUser => submissions' # Slots
    <3>1. CASE BothSubmitted(u)
      BY <1>2, <1>6, <2>1, <2>5, <3>1 DEF Submit, BothSubmitted
    <3>2. CASE ~BothSubmitted(u)
      BY <1>6, <2>1, <3>2 DEF Submit, BothSubmitted
    <3> QED
      BY <3>1, <3>2
  <2>9. \A s \in Slots \ players' : s # Slot(u)
    BY <2>1, <2>2 DEF Slotted
  <2>10. InRound(k)'
    BY <1>1, <2>1, <2>2, <2>3, <2>4, <2>5, <2>6, <2>7, <2>8, <2>9 DEF InRound
  <2> QED
    BY <2>10
<1>7. CASE MeasureCorrelation(u)
  <2>1. /\ \A v \in Users : Slot(v)' = Slot(v) /\ Here(v)' = Here(v)
        /\ \A v \in Users : v # u => user'[v].pc = user[v].pc
        /\ \/ user[u].pc = "measuring" /\ user'[u].pc = "submitted"
           \/ user[u].pc = "failed" /\ user'[u].pc = "failed"
        /\ busy = u /\ busy' = NoUser
        /\ UNCHANGED <<players, submissions, value_gathered, plates>>
        /\ value' = [s \in Slots |-> IF begun[s] = plates[s] THEN plates[s] ELSE 0]
    <3>1. busy = u /\ user[u].pc \in {"measuring", "failed"}
      BY <1>7 DEF MeasureCorrelation, Slotted
    <3>2. PICK pc \in PCs :
             /\ Goto(u, pc)
             /\ user[u].pc = "measuring" => pc = "submitted"
             /\ user[u].pc # "measuring" => pc = user[u].pc
      BY <1>7, Hears
    <3>3. /\ user'[u].pc = pc
          /\ \A v \in Users : Slot(v)' = Slot(v) /\ Here(v)' = Here(v)
          /\ \A v \in Users : v # u => user'[v].pc = user[v].pc
      BY <3>2, Goes
    <3> QED
      BY <1>7, <3>1, <3>2, <3>3 DEF MeasureCorrelation
  <2>2. Unread = Slots /\ begun = plates /\ \A s \in Slots : plates[s] = k
    BY <1>2, <2>1 DEF InRound
  <2>3. value' = [s \in Slots |-> k]
    BY <2>1, <2>2
  <2>4. Unread' = Unread /\ \A v \in Users : (Holds(v)' <=> Holds(v)) /\ Position(v)' = Position(v)
    BY <2>1 DEF Unread, Holds, Position
  <2>5. InRound(k)'
    BY <2>1, <2>3, <2>4 DEF InRound
  <2> QED
    BY <2>5
<1>8. CASE MeasureRaises(u)
  BY <1>8 DEF MeasureRaises
<1>9. CASE GetCounts(u)
  <2>1. /\ user[u].pc = "submitted" /\ busy = NoUser /\ submissions = Slots
        /\ UNCHANGED <<players, busy, begun, plates>> /\ Reads(u, Reading("counts", value))
        /\ IF value_gathered \cup {Slot(u)} = Slots THEN Reset
           ELSE value_gathered' = {Slot(u)} /\ UNCHANGED <<submissions, value>>
    BY <1>9 DEF GetCounts
  <2>2. Reading("counts", value) \in [kind: {"unread", "notready", "counts"}, counts: Counts]
    BY DEF Reading, TypeOK
  <2>3. /\ IF LastPair(u) THEN user'[u].pc = "done"
                          ELSE user'[u].pc = "moving" /\ Here(u)' = Here(u) + 1
        /\ \A v \in Users : Slot(v)' = Slot(v)
        /\ \A v \in Users : v # u => user'[v] = user[v]
    BY <2>1, <2>2, ReadsOn DEF Here
  <2>4. Holds(u) /\ Slot(u) \in Unread /\ Here(u) = k /\ Slot(u) \in players
    BY <2>1 DEF Holds, InRound, Position, Slotted, Unread
  <2>5. Position(u)' = NextRound(k) /\ user'[u].pc \in {"done", "moving"}
    BY <2>3, <2>4, Rounds DEF LastPair, Position
  <2>6. \A v \in Users : v # u =>
          /\ (Holds(v)' <=> Holds(v)) /\ Position(v)' = Position(v)
          /\ user'[v].pc = user[v].pc
    BY <2>3 DEF Holds, Position, Here
  <2>7. \A v \in Users : v # u /\ Holds(v) => Slot(v) # Slot(u)
    BY <2>4 DEF Slotted
  <2>8. CASE value_gathered \cup {Slot(u)} = Slots
    <3>1. submissions' = {} /\ value_gathered' = {} /\ Unread' = {} /\ Slots # {}
      BY <2>1, <2>8 DEF Reset, Unread, Slots
    <3>2. \A s \in Slots : s # Slot(u) => s \in value_gathered /\ s \notin Unread
      BY <2>8 DEF Unread
    <3>3. \A v \in Users : v # u /\ Holds(v) =>
            /\ user[v].pc # "failed" => Position(v) = NextRound(k)
            /\ user[v].pc \notin {"measuring", "submitted"}
      BY <1>1, <2>7, <3>2 DEF InRound
    <3>4. \A s \in Slots \ players : NextRound(k) = 1
      BY <2>4, <3>2, Rounds DEF InRound
    <3>5. InRound(NextRound(k))'
      BY <2>1, <2>3, <2>5, <2>6, <3>1, <3>3, <3>4 DEF InRound
    <3> QED
      BY <3>5, Rounds
  <2>9. CASE value_gathered \cup {Slot(u)} # Slots
    <3>1. value_gathered = {} /\ Unread = Slots
      <4>1. ASSUME NEW s \in value_gathered, s # Slot(u)
            PROVE  FALSE
        <5>1. value_gathered \subseteq Slots
          BY DEF TypeOK
        <5>2. \A t \in Slots : t = s \/ t = Slot(u)
          BY <1>1, <4>1, <5>1 DEF Slots
        <5> QED
          BY <1>1, <2>9, <4>1, <5>1, <5>2
      <4> QED
        BY <1>3, <2>1, <2>4, <4>1 DEF Unread
    <3>2. value_gathered' = {Slot(u)} /\ UNCHANGED <<submissions, value>>
          /\ Unread' = Slots \ {Slot(u)} /\ value_gathered' # Slots
      BY <2>1, <2>9, <3>1 DEF Unread
    <3>3. InRound(k)'
      BY <1>1, <2>1, <2>3, <2>4, <2>5, <2>6, <2>7, <3>1, <3>2 DEF InRound
    <3> QED
      BY <3>3
  <2> QED
    BY <2>8, <2>9
<1>10. CASE RemovePlayer(u)
  <2>1. /\ user[u].pc = "done" /\ user'[u].pc = "left"
        /\ \A v \in Users : Slot(v)' = Slot(v) /\ Here(v)' = Here(v)
        /\ \A v \in Users : v # u => user'[v].pc = user[v].pc
        /\ players' = players \ {Slot(u)}
        /\ UNCHANGED <<submissions, value_gathered, value, busy, begun, plates>>
    BY <1>10, Goes DEF RemovePlayer, PCs
  <2>2. Holds(u) /\ Position(u) = 1 /\ Slot(u) \notin Unread
    BY <2>1 DEF Holds, Position, InRound
  <2>3. k = IF Slot(u) \in value_gathered THEN Pairs ELSE 1
    <3>1. CASE Slot(u) \in value_gathered
      <4>1. NextRound(k) = 1
        BY <2>1, <2>2, <3>1 DEF InRound
      <4> QED
        BY <3>1, <4>1, TwoPlayerAssumption, SMT DEF NextRound
    <3>2. CASE Slot(u) \notin value_gathered
      BY <2>1, <2>2, <3>2 DEF InRound
    <3> QED
      BY <3>1, <3>2
  <2>4. /\ Unread' = Unread /\ ~Holds(u)'
        /\ \A v \in Users : v # u => (Holds(v)' <=> Holds(v)) /\ Position(v)' = Position(v)
    BY <2>1 DEF Unread, Holds, Position
  <2>5. InRound(k)'
    BY <2>1, <2>2, <2>3, <2>4 DEF InRound
  <2> QED
    BY <2>5
<1> QED
  BY <1>4, <1>5, <1>6, <1>7, <1>8, <1>9, <1>10 DEF UserStep

LEMMA InStepStep ==
    ASSUME TypeOK, Slotted, InStep, NEW u \in Users, UserStep(u)
    PROVE  InStep'
<1> SUFFICES ASSUME lockstep' PROVE sound' /\ \E j \in 1..Pairs : InRound(j)'
  BY DEF InStep
<1>1. lockstep
  BY DEF UserStep, AddPlayer, TurnHwp, TurnQwp, Turn, Submit, MeasureCorrelation,
     MeasureRaises, GetCounts, RemovePlayer, RunFails
<1>2. sound'
  BY <1>1 DEF InStep, UserStep, AddPlayer, TurnHwp, TurnQwp, Turn, Submit, MeasureCorrelation,
     MeasureRaises, GetCounts, RemovePlayer, RunFails
<1> QED
  BY <1>1, <1>2, InRoundStep DEF InStep

LEMMA BothPlatesStep ==
    ASSUME TypeOK, Slotted, InStep, BothPlatesInPlace, NEW u \in Users, UserStep(u)
    PROVE  BothPlatesInPlace'
<1> SUFFICES ASSUME lockstep', NEW v \in Users, NEW k \in 1..Pairs, got'[v][k].kind # "unread"
             PROVE  got'[v][k].counts = [s \in Slots |-> k]
  BY DEF BothPlatesInPlace
<1>1. lockstep
  BY DEF UserStep, AddPlayer, TurnHwp, TurnQwp, Turn, Submit, MeasureCorrelation,
     MeasureRaises, GetCounts, RemovePlayer, RunFails
<1>2. CASE got' = got
  BY <1>1, <1>2 DEF BothPlatesInPlace
<1>3. CASE GetCounts(u)
  <2>1. /\ user[u].pc = "submitted" /\ busy = NoUser /\ submissions = Slots
        /\ Reads(u, Reading("counts", value))
    BY <1>3 DEF GetCounts
  <2>2. Reading("counts", value) \in [kind: {"unread", "notready", "counts"}, counts: Counts]
    BY DEF Reading, TypeOK
  <2>3. PICK j \in 1..Pairs : InRound(j)
    BY <1>1 DEF InStep
  <2>4. Here(u) = j /\ value = [s \in Slots |-> j]
    BY <2>1, <2>3 DEF InRound, Holds, Position, Unread
  <2>5. got'[v][k] = IF v = u /\ k = Here(u) THEN Reading("counts", value) ELSE got[v][k]
    BY <2>1, <2>2, ReadsOn
  <2>6. CASE v = u /\ k = j
    <3>1. got'[v][k].counts = value
      BY <2>4, <2>5, <2>6 DEF Reading
    <3> QED
      BY <2>4, <2>6, <3>1
  <2>7. CASE ~(v = u /\ k = j)
    BY <1>1, <2>4, <2>5, <2>7 DEF BothPlatesInPlace
  <2> QED
    BY <2>6, <2>7
<1> QED
  BY <1>2, <1>3 DEF UserStep, AddPlayer, TurnHwp, TurnQwp, Turn, Submit, MeasureCorrelation,
     MeasureRaises, RemovePlayer, RunFails

LEMMA LeftBehindStep ==
    ASSUME TypeOK, Slotted, DoneInTime, LeftBehind, NEW u \in Users, UserStep(u)
    PROVE  DoneInTime' /\ LeftBehind'
<1>1. Slot(u) \in Slots /\ \A v \in Users : Slot(v) \in Slots
  BY DEF TypeOK, Slot
<1>2. CASE AddPlayer(u)
  <2>1. /\ user'[u].pc = "moving" /\ user[u].pc = "off" /\ players \subseteq players'
        /\ \A v \in Users : v # u => user'[v] = user[v]
        /\ UNCHANGED <<submissions, value_gathered, got>>
    BY <1>2, NewPlayer DEF AddPlayer
  <2>2. \A v \in Users : user'[v].pc \in {"done", "left"} \/ user[v].pc = "left" =>
           user'[v].pc = user[v].pc /\ Slot(v)' = Slot(v)
    BY <2>1 DEF Slot
  <2> QED
    BY <2>1, <2>2 DEF DoneInTime, LeftBehind, Unread
<1>3. ASSUME NEW pc \in PCs, Goto(u, pc), pc \notin {"done", "left"} \/ pc = user[u].pc,
             user[u].pc # "left", UNCHANGED <<players, value_gathered, got>>,
             submissions' \subseteq submissions \cup players,
             \A v \in Users : user[v].pc = "done" /\ Slot(v) \in submissions' =>
                 Slot(v) \in submissions
      PROVE  DoneInTime' /\ LeftBehind'
  <2>1. /\ user'[u].pc = pc /\ \A v \in Users : Slot(v)' = Slot(v)
        /\ \A v \in Users : v # u => user'[v].pc = user[v].pc
    BY <1>3, Goes
  <2>2. \A v \in Users : /\ user[v].pc = "left" => user'[v].pc = "left"
                         /\ user'[v].pc = "done" => user[v].pc = "done"
    BY <1>3, <2>1
  <2>3. DoneInTime'
    BY <1>3, <2>1, <2>2 DEF DoneInTime, Unread
  <2>4. LeftBehind'
    BY <1>3, <2>1, <2>2 DEF LeftBehind
  <2> QED
    BY <2>3, <2>4
<1>4. CASE TurnHwp(u) \/ TurnQwp(u) \/ RunFails(u) \/ MeasureRaises(u)
  <2>1. /\ \E pc \in {"turning", "settled", "failed"} : Goto(u, pc)
        /\ UNCHANGED <<players, value_gathered, got, submissions>>
        /\ user[u].pc # "left"
    BY <1>4 DEF TurnHwp, TurnQwp, Turn, RunFails, MeasureRaises, device, Slotted
  <2> QED
    BY <1>3, <2>1 DEF PCs
<1>5. CASE MeasureCorrelation(u)
  <2>1. /\ UNCHANGED <<players, value_gathered, got, submissions>>
        /\ user[u].pc \in {"measuring", "failed"}
    BY <1>5 DEF MeasureCorrelation, Slotted
  <2> QED
    BY <1>3, <1>5, <2>1, Hears
<1>6. CASE Submit(u)
  <2>1. /\ \E pc \in {"measuring", "submitted"} : Goto(u, pc)
        /\ UNCHANGED <<players, value_gathered, got>> /\ user[u].pc = "settled"
        /\ submissions' = submissions \cup {Slot(u)}
    BY <1>6 DEF Submit
  <2>2. Slot(u) \in players
    BY <2>1 DEF Slotted, Holds
  <2>3. ASSUME NEW v \in Users, user[v].pc = "done" PROVE Slot(v) # Slot(u)
    BY <2>1, <2>3 DEF Slotted, Holds
  <2> QED
    BY <1>3, <2>1, <2>2, <2>3 DEF PCs
<1>7. CASE GetCounts(u)
  <2>1. PICK reading \in [kind: {"unread", "notready", "counts"}, counts: Counts] :
           /\ Reads(u, reading)
           /\ \/ reading.kind = "notready" /\ UNCHANGED <<submissions, value_gathered>>
              \/ submissions' = {}
              \/ value_gathered' = {Slot(u)} /\ submissions' = submissions
                 /\ value_gathered \cup {Slot(u)} # Slots
    <3>1. NoCounts \in Counts
      BY TwoPlayerAssumption, SMT DEF NoCounts, Counts
    <3> QED
      BY <1>7, <3>1 DEF GetCounts, Reading, Reset, TypeOK
  <2>2. /\ user[u].pc = "submitted" /\ UNCHANGED players
        /\ \A v \in Users : Slot(v)' = Slot(v)
        /\ \A v \in Users : v # u => user'[v] = user[v]
        /\ user'[u].pc \in {"moving", "done"} /\ (user'[u].pc = "done" => Here(u) = Pairs)
        /\ \A v \in Users, k \in 1..Pairs :
              got'[v][k] = IF v = u /\ k = Here(u) THEN reading ELSE got[v][k]
    BY <1>7, <2>1, ReadsOn DEF GetCounts, LastPair
  <2>3. Pairs \in 1..Pairs
    BY TwoPlayerAssumption, SMT
  <2>4. submissions' \subseteq submissions /\ (submissions' = {} \/ value_gathered \subseteq value_gathered')
    <3>1. CASE value_gathered' = {Slot(u)} /\ value_gathered \cup {Slot(u)} # Slots
               /\ submissions' = submissions
      <4>1. value_gathered \subseteq {Slot(u)}
        BY <1>1, <3>1 DEF TypeOK, Slots
      <4> QED
        BY <3>1, <4>1
    <3> QED
      BY <2>1, <3>1
  <2>5. Unread' \subseteq Unread
    BY <2>4 DEF Unread
  <2>6. user'[u].pc = "done" /\ Slot(u) \in Unread' => got'[u][Pairs].kind = "notready"
    BY <2>1, <2>2, <2>3 DEF Unread
  <2>7. \A v \in Users : v # u => got'[v][Pairs] = got[v][Pairs]
    BY <2>2, <2>3
  <2>8. DoneInTime'
    BY <2>2, <2>5, <2>6, <2>7 DEF DoneInTime
  <2>9. LeftBehind'
    BY <2>2, <2>4, <2>7 DEF LeftBehind
  <2> QED
    BY <2>8, <2>9
<1>8. CASE RemovePlayer(u)
  <2>1. /\ user[u].pc = "done" /\ user'[u].pc = "left"
        /\ \A v \in Users : Slot(v)' = Slot(v)
        /\ \A v \in Users : v # u => user'[v] = user[v]
        /\ players' = players \ {Slot(u)}
        /\ UNCHANGED <<submissions, value_gathered, got>>
    BY <1>8, Goes DEF RemovePlayer, PCs
  <2>2. DoneInTime'
    BY <2>1 DEF DoneInTime, Unread
  <2>3. LeftBehind'
    BY <2>1 DEF DoneInTime, LeftBehind, Unread
  <2> QED
    BY <2>2, <2>3
<1> QED
  BY <1>2, <1>4, <1>5, <1>6, <1>7, <1>8 DEF UserStep

LEMMA NextIInv == ASSUME IInv, [Next]_vars PROVE IInv'
<1>1. CASE \E u \in Users : UserStep(u)
  BY <1>1, TypeStep, SlottedStep, OwnCountsStep, OwnPlatesStep, InStepStep, BothPlatesStep,
     LeftBehindStep DEF IInv
<1>2. CASE UNCHANGED vars
  <2> USE <1>2 DEF IInv, vars, device, Slot, Here, Holds
  <2>1. TypeOK' /\ Slotted' /\ OwnCounts'
    BY DEF TypeOK, Slotted, OwnCounts
  <2>2. \A k \in 1..Pairs : InRound(k) => InRound(k)'
    BY DEF InRound, Position, Unread
  <2>3. InStep' /\ OwnPlatesInPlace' /\ BothPlatesInPlace'
    BY <2>2 DEF InStep, OwnPlatesInPlace, BothPlatesInPlace
  <2>4. DoneInTime' /\ LeftBehind'
    BY DEF DoneInTime, LeftBehind, Unread
  <2> QED
    BY <2>1, <2>3, <2>4
<1> QED
  BY <1>1, <1>2 DEF Next

\* Whatever players come, submit, read, fail and leave.
THEOREM InductiveInvariant == Spec => []IInv
  BY InitIInv, NextIInv, PTL DEF Spec

\* The types of the device, the plates and the runs.
THEOREM TypesHold == Spec => []TypeOK
<1>1. IInv => TypeOK
  BY DEF IInv
<1> QED
  BY <1>1, InductiveInvariant, PTL

\* Every count a run reads was taken with its own plates in place, as long as no
\* measurement raises.
THEOREM OwnPlatesHold == Spec => []OwnPlatesInPlace
<1>1. IInv => OwnPlatesInPlace
  BY DEF IInv
<1> QED
  BY <1>1, InductiveInvariant, PTL

\* In lockstep the plates of the other player are in place as well.
THEOREM BothPlatesHold == Spec => []BothPlatesInPlace
<1>1. IInv => BothPlatesInPlace
  BY DEF IInv
<1> QED
  BY <1>1, InductiveInvariant, PTL

\* A free slot has a submission left only if the other player has still to read what was
\* counted, or if a player has left the slot with a last count of -1; in or out of step,
\* whoever fails, and for any number of players.
THEOREM LeftoversExplained == Spec => []LeftBehind
<1>1. IInv => LeftBehind
  BY DEF IInv
<1> QED
  BY <1>1, InductiveInvariant, PTL

=============================================================================
