----------------------------- MODULE HealthProbe -----------------------------
(***************************************************************************)
(* The /health handler: it connects to the router, asks each provider once *)
(* for its devices, over one REQ client, then probes the rotary encoder    *)
(* and the follower.  What is there meanwhile does not depend on the       *)
(* handler: some things are there throughout, some for a time, some never. *)
(***************************************************************************)
EXTENDS Naturals, Sequences, FiniteSets, Functions

CONSTANTS
    Configured,     \* the device settings: a sequence of <<provider, name>>
    Unset,          \* an empty provider or device name
    VirtualRotator, \* settings.virtual_rotator
    FollowerGiven   \* whether the request names a follower's address

IsConfigured(d) == d[1] # Unset /\ d[2] # Unset

\* A device that several settings name is one device.
Devices == {d \in Range(Configured) : IsConfigured(d)}

\* The providers that the first n settings name.
Named(n) == {Configured[i][1] : i \in {j \in 1..n : IsConfigured(Configured[j])}}

Parts ==
    {"router"} \cup (IF VirtualRotator THEN {} ELSE {"encoder"})
               \cup (IF FollowerGiven THEN {"follower"} ELSE {})

ASSUME HealthAssumption ==
    /\ Configured \in Seq(Range(Configured))
    /\ VirtualRotator \in BOOLEAN
    /\ FollowerGiven \in BOOLEAN

VARIABLES
    probe, \* the handler: where it is, the setting whose provider it has asked last, the
           \* one whose provider has hung, and the parts and devices found reachable
    up,    \* history: the parts and devices that are there throughout the probe
    ever   \* history: those that are there at some time of it

healthVars == <<probe, up, ever>>

Idle == [pc |-> "idle", asked |-> 0, stuck |-> 0, parts |-> {}, devices |-> {}]

Whereabouts == [parts: SUBSET Parts, devices: SUBSET Devices]

HealthTypeOK ==
    /\ probe \in [pc: {"idle", "connecting", "devices", "encoder", "follower", "done"},
                  asked: 0..Len(Configured), stuck: 0..Len(Configured),
                  parts: SUBSET Parts, devices: SUBSET Devices]
    /\ up \in Whereabouts
    /\ ever \in Whereabouts

Nowhere == [parts |-> {}, devices |-> {}]

HealthInit == probe = Idle /\ up = Nowhere /\ ever = Nowhere

-----------------------------------------------------------------------------
ProbeStarts ==
    /\ probe' = [Idle EXCEPT !.pc = "connecting"]
    /\ ever' \in Whereabouts
    /\ up' \in [parts: SUBSET ever'.parts, devices: SUBSET ever'.devices]

\* The answer is sent, or nobody waits for it: what is left of it matters no more.
ProbeForgotten == probe' = Idle /\ up' = Nowhere /\ ever' = Nowhere

\* A part that is probed by itself answers or does not.
Probes(part, pc, found, lost) ==
    /\ probe.pc = pc
    /\ \/ /\ part \in ever.parts
          /\ probe' = [probe EXCEPT !.pc = found, !.parts = @ \cup {part}]
       \/ /\ part \notin up.parts
          /\ probe' = [probe EXCEPT !.pc = lost]
    /\ UNCHANGED <<up, ever>>

AfterEncoder == IF FollowerGiven THEN "follower" ELSE "done"

AfterDevices == IF VirtualRotator THEN AfterEncoder ELSE "encoder"

\* The devices of a router that is not reached are not asked for.
ConnectRouter == Probes("router", "connecting", "devices", AfterDevices)

\* A provider the router does not know is an error; one that does not react, or a
\* router that has gone, is a timeout, and the client's socket still owes a recv.
AfterError(i, hangs) ==
    [probe EXCEPT !.asked = i, !.stuck = IF hangs THEN i ELSE @]

\* Mutant: devices are told apart by their names only.
ByNameOnly(have) == {d \in have : \A e \in probe.devices : e[2] # d[2]}

Reported(have) == have

\* The settings whose providers have not been asked yet.
Unasked ==
    {i \in (probe.asked + 1)..Len(Configured) :
        IsConfigured(Configured[i]) /\ Configured[i][1] \notin Named(probe.asked)}

\* The next provider in the order of the settings answers with what it has of the
\* devices, or with an error, or hangs.  A client that is stuck fails for every provider.
ProbeDevices ==
    \E i \in Unasked :
        LET listed == {d \in Devices : d[1] = Configured[i][1]} IN
        /\ probe.pc = "devices"
        /\ \A j \in Unasked : i <= j
        /\ \/ /\ probe.stuck = 0
              /\ \E have \in SUBSET (listed \cap ever.devices) :
                    /\ listed \cap up.devices \subseteq have
                    /\ probe' = [probe EXCEPT !.asked = i, !.devices = @ \cup Reported(have)]
           \/ /\ probe.stuck = 0
              /\ "router" \in up.parts => listed \cap up.devices = {}
              /\ \E hangs \in BOOLEAN : probe' = AfterError(i, hangs)
           \/ probe.stuck # 0 /\ probe' = AfterError(i, FALSE)
        /\ UNCHANGED <<up, ever>>

DevicesProbed ==
    /\ probe.pc = "devices"
    /\ Unasked = {}
    /\ probe' = [probe EXCEPT !.pc = AfterDevices]
    /\ UNCHANGED <<up, ever>>

ProbeRotaryEncoder == Probes("encoder", "encoder", AfterEncoder, AfterEncoder)

ProbeFollower == Probes("follower", "follower", "done", "done")

HealthNext ==
    ConnectRouter \/ ProbeDevices \/ DevicesProbed \/ ProbeRotaryEncoder \/ ProbeFollower

\* HealthStatus.all_ok
AllOk == probe.parts = Parts /\ probe.devices = Devices

\* History: every part and device was there at some time of the probe.
AllThere == ever = [parts |-> Parts, devices |-> Devices]

-----------------------------------------------------------------------------
\* What is reported reachable was there at some time of the probe, and a part that was
\* there throughout is reported reachable.  So is a device, if the router was there
\* throughout too, unless its provider comes after one that has hung: a single provider
\* that does not react makes those after it look dead, and none before it.
ProbeIsTrue ==
    /\ probe.parts \subseteq ever.parts
    /\ probe.devices \subseteq ever.devices
    /\ probe.pc = "done" =>
          /\ up.parts \subseteq probe.parts
          /\ "router" \in up.parts =>
                \A d \in up.devices \ probe.devices :
                    probe.stuck # 0 /\ d[1] \notin Named(probe.stuck)

=============================================================================
