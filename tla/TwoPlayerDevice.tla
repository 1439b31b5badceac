--------------------------- MODULE TwoPlayerDevice ---------------------------
(***************************************************************************)
(* QKDDevice of pqn/drivers/qkd_driver.py, the barrier two players of      *)
(* qkd_run share: each moves the plates of its side, submits, and reads    *)
(* the coincidences counted once both have submitted.  The provider of the *)
(* device serves one call at a time; the plates belong to other providers  *)
(* and may move while the device counts.                                   *)
(***************************************************************************)
EXTENDS Naturals, FiniteSets

CONSTANTS
    Users,  \* the runs of qkd_run
    NoUser, \* no run
    Pairs   \* bound: how many pairs of states a run measures (4 in the code's bases)

Slots == {"player1", "player2"}

ASSUME TwoPlayerAssumption == Pairs \in Nat \ {0} /\ NoUser \notin Users

VARIABLES
    players,        \* _players: the slots in use
    submissions,    \* _submissions
    value_gathered, \* _value_gathered
    value,          \* _value: the settings it was counted in
    busy,           \* the run whose submit the device is counting for, also when its
                    \* client has given the call up
    begun,          \* the plates when that count began
    plates,         \* the pair each side's plates are set for; 0 while they move
    user,           \* where each run is: its slot, its pair
    got,            \* history: what each run has read for its pairs
    sound,          \* history: no measurement has raised
    lockstep        \* history: sound, and nobody has read before both had submitted
                    \* or submitted before both had read

device == <<players, submissions, value_gathered, value, busy, begun>>
vars == <<device, plates, user, got, sound, lockstep>>

Slot(u) == user[u].slot
Here(u) == user[u].pair

\* Counts are what they were counted in; those of no measurement are the value 0.
Counts == [Slots -> 0..Pairs]
NoCounts == [s \in Slots |-> 0]
Reading(kind, counts) == [kind |-> kind, counts |-> counts]

TypeOK ==
    /\ players \subseteq Slots
    /\ submissions \subseteq Slots
    /\ value_gathered \subseteq Slots
    /\ value \in Counts
    /\ busy \in Users \cup {NoUser}
    /\ begun \in Counts
    /\ plates \in [Slots -> 0..Pairs]
    /\ user \in [Users ->
          [pc: {"off", "moving", "turning", "settled", "measuring", "submitted",
                "done", "left", "failed"},
           slot: Slots, pair: 1..Pairs]]
    /\ got \in [Users -> [1..Pairs -> [kind: {"unread", "notready", "counts"}, counts: Counts]]]
    /\ sound \in BOOLEAN
    /\ lockstep \in BOOLEAN

Init ==
    /\ players = {}
    /\ submissions = {}
    /\ value_gathered = {}
    /\ value = NoCounts
    /\ busy = NoUser
    /\ begun = NoCounts
    /\ plates = [s \in Slots |-> 0]
    /\ user = [u \in Users |-> [pc |-> "off", slot |-> "player1", pair |-> 1]]
    /\ got = [u \in Users |-> [k \in 1..Pairs |-> Reading("unread", NoCounts)]]
    /\ sound = TRUE
    /\ lockstep = TRUE

Goto(u, pc) == user' = [user EXCEPT ![u].pc = pc]

-----------------------------------------------------------------------------
(* The device *)

FirstFree == IF "player1" \notin players THEN "player1" ELSE "player2"

\* A third run finds no slot and raises.
AddPlayer(u) ==
    /\ busy = NoUser
    /\ user[u].pc = "off"
    /\ players # Slots
    /\ players' = players \cup {FirstFree}
    /\ user' = [user EXCEPT ![u] = [pc |-> "moving", slot |-> FirstFree, pair |-> 1]]
    /\ UNCHANGED <<submissions, value_gathered, value, busy, begun, plates, got, sound,
                   lockstep>>

\* Only the slot is given back.
RemovePlayer(u) ==
    /\ busy = NoUser
    /\ user[u].pc = "done"
    /\ players' = players \ {Slot(u)}
    /\ Goto(u, "left")
    /\ UNCHANGED <<submissions, value_gathered, value, busy, begun, plates, got, sound,
                   lockstep>>

\* Mutant: the device counts once for the two submissions.
BothSubmittedNow(u) == submissions \cup {Slot(u)} = Slots /\ submissions # Slots

BothSubmitted(u) == submissions \cup {Slot(u)} = Slots

\* Whoever submits when both have, also once more, has the device count.
Submit(u) ==
    /\ busy = NoUser
    /\ user[u].pc = "settled"
    /\ submissions' = submissions \cup {Slot(u)}
    /\ lockstep' = (lockstep /\ Slot(u) \notin value_gathered)
    /\ IF BothSubmitted(u)
       THEN busy' = u /\ begun' = plates /\ Goto(u, "measuring")
       ELSE Goto(u, "submitted") /\ UNCHANGED <<busy, begun>>
    /\ UNCHANGED <<players, value_gathered, value, plates, got, sound>>

\* Five seconds of integration have passed; plates that moved in between spoil it.  A
\* run that has given up does not hear of it.
MeasureCorrelation(u) ==
    /\ busy = u
    /\ value' = [s \in Slots |-> IF begun[s] = plates[s] THEN plates[s] ELSE 0]
    /\ begun' = NoCounts
    /\ busy' = NoUser
    /\ user' = [user EXCEPT ![u].pc = IF @ = "measuring" THEN "submitted" ELSE @]
    /\ UNCHANGED <<players, submissions, value_gathered, plates, got, sound,
                   lockstep>>

\* The time tagger raises: the submission stays, the value is what it was.
MeasureRaises(u) ==
    /\ busy = u
    /\ busy' = NoUser
    /\ begun' = NoCounts
    /\ Goto(u, "failed")
    /\ sound' = FALSE
    /\ lockstep' = FALSE
    /\ UNCHANGED <<players, submissions, value_gathered, value, plates, got>>

\* Mutant: the loop goes once too often.
OneMorePair(u) == Here(u) > Pairs

LastPair(u) == Here(u) = Pairs

Reads(u, reading) ==
    /\ got' = [got EXCEPT ![u][Here(u)] = reading]
    /\ user' = IF LastPair(u) THEN [user EXCEPT ![u].pc = "done"]
               ELSE [user EXCEPT ![u].pc = "moving", ![u].pair = @ + 1]

\* Mutant: the submissions are not cleared.
ResetReadings == value_gathered' = {} /\ value' = NoCounts /\ UNCHANGED submissions

Reset == submissions' = {} /\ value_gathered' = {} /\ value' = NoCounts

\* It answers -1 at once when not both have submitted, and qkd_run, which waits
\* while the answer is None, takes that for a count.
GetCounts(u) ==
    /\ busy = NoUser
    /\ user[u].pc = "submitted"
    /\ \/ /\ submissions # Slots
          /\ Reads(u, Reading("notready", NoCounts))
          /\ lockstep' = FALSE
          /\ UNCHANGED <<submissions, value_gathered, value>>
       \/ /\ submissions = Slots
          /\ Reads(u, Reading("counts", value))
          /\ IF value_gathered \cup {Slot(u)} = Slots
             THEN Reset
             ELSE value_gathered' = {Slot(u)} /\ UNCHANGED <<submissions, value>>
          /\ UNCHANGED lockstep
    /\ UNCHANGED <<players, busy, begun, plates, sound>>

-----------------------------------------------------------------------------
(* qkd_run *)

Turn(u, from, to, setting) ==
    /\ user[u].pc = from
    /\ Goto(u, to)
    /\ plates' = [plates EXCEPT ![Slot(u)] = setting]
    /\ UNCHANGED <<device, got, sound, lockstep>>

\* Mutant: the quarter wave plate is not waited for.
TurnHwpOnly(u) == Turn(u, "moving", "settled", 0)

\* The half wave plate is set, the quarter wave plate is not.
TurnHwp(u) == Turn(u, "moving", "turning", 0)

TurnQwp(u) == Turn(u, "turning", "settled", Here(u))

\* Any call raises or times out, also while the device counts for it; the slot is not
\* given back.  A call whose answer is lost is one that was made, by a run that fails then.
RunFails(u) ==
    /\ user[u].pc \in {"moving", "turning", "settled", "measuring", "submitted", "done"}
    /\ Goto(u, "failed")
    /\ UNCHANGED <<device, plates, got, sound, lockstep>>

-----------------------------------------------------------------------------
UserStep(u) ==
    \/ AddPlayer(u)
    \/ TurnHwp(u)
    \/ TurnQwp(u)
    \/ Submit(u)
    \/ MeasureCorrelation(u)
    \/ MeasureRaises(u)
    \/ GetCounts(u)
    \/ RemovePlayer(u)
    \/ RunFails(u)

Next == \E u \in Users : UserStep(u)

Spec == Init /\ [][Next]_vars

-----------------------------------------------------------------------------
\* A count that is not -1 was taken with the reader's own plates set for the pair it
\* is entered under, whatever the other player, or a failed one, does; unless a
\* measurement has raised, after which the value of an older one, or 0, is read.
OwnPlatesInPlace ==
    sound =>
        \A u \in Users, k \in 1..Pairs :
            got[u][k].kind = "counts" => got[u][k].counts[Slot(u)] = k

\* In lockstep both players read counts taken with the plates of both set for the
\* pair that both enter them under.
BothPlatesInPlace ==
    lockstep =>
        \A u \in Users, k \in 1..Pairs :
            got[u][k].kind # "unread" => got[u][k].counts = [s \in Slots |-> k]

\* However the players get out of step, a free slot has a submission left only if its
\* counts were read and the other player has still to read them, or if a player has left
\* the slot with the -1 of a device that was not ready entered for its last pair.  What is
\* left has the device count before the slot's next owner has submitted, or once more when
\* it does.
LeftBehind ==
    \A s \in submissions \ players :
        \/ s \in value_gathered
        \/ \E u \in Users :
              user[u].pc = "left" /\ Slot(u) = s /\ got[u][Pairs].kind = "notready"

=============================================================================
