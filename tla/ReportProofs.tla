---------------------------- MODULE ReportProofs -----------------------------
(***************************************************************************)
(* The daily report, its schedule and the probe of the hardware, for any   *)
(* number of commands, entries, settings and providers.                    *)
(***************************************************************************)
EXTENDS ReportSchedule, FiniteSetTheorems, TLAPS

-----------------------------------------------------------------------------
(* The crontab. *)

OneJob == \A c, d \in Jobs : c = d

\* What a command has read of the user's entries is what the user wants, as long as no
\* read fails and no edit falls between a read and its write.
ReadsKept == calm => \A c \in Commands : command[c].pc = "read" => Untagged(command[c].lines) = entries

EntriesKept == calm => table \cap Entries = entries

CronInv ==
    /\ CronTypeOK
    /\ OneJob
    /\ ReadsKept
    /\ EntriesKept

-----------------------------------------------------------------------------
(* The probe and the report. *)

\* Nothing is found that is not there.
Found == probe.parts \subseteq ever.parts /\ probe.devices \subseteq ever.devices

\* A part that is there throughout has been found once its turn is over.
PartsFound ==
    /\ probe.pc \notin {"idle", "connecting"} /\ "router" \in up.parts => "router" \in probe.parts
    /\ probe.pc \in {"follower", "done"} /\ "encoder" \in up.parts => "encoder" \in probe.parts
    /\ probe.pc = "done" /\ "follower" \in up.parts => "follower" \in probe.parts

\* The providers that have been asked have told their devices, up to one that hangs.
DevicesFound ==
    "router" \in up.parts =>
        \A d \in up.devices :
            d[1] \in Named(probe.asked) =>
                d \in probe.devices \/ (probe.stuck # 0 /\ d[1] \notin Named(probe.stuck))

\* All providers have been asked when the devices' turn is over.
AllAsked ==
    probe.pc \in {"encoder", "follower", "done"} /\ "router" \in up.parts =>
        \A d \in Devices : d[1] \in Named(probe.asked)

\* A rotator without an encoder has none probed, nor has a follower without an address.
TurnIfAny ==
    /\ VirtualRotator => probe.pc # "encoder"
    /\ ~FollowerGiven => probe.pc # "follower"

ProbeInv ==
    /\ HealthTypeOK
    /\ probe.stuck <= probe.asked
    /\ Found
    /\ PartsFound
    /\ DevicesFound
    /\ AllAsked
    /\ TurnIfAny

\* Before it posts anything a run has told nothing, and nothing has been refused.
Unheard ==
    run.pc \in {"checking", "down", "hardware", "availability", "games", "posting", "fallback"}
        => told = {} /\ lost = {} /\ run.exit = "none"

\* A probe that found everything was one to which everything was there.
FineIfOk ==
    run.pc \in {"availability", "games", "posting"} /\ run.hardware = "ok" => fine

Judged ==
    run.pc \in {"finally", "ended"} =>
        /\ run.exit = "0" => told = {"digest"} /\ fine /\ ~run.failed
        /\ told = {} => lost # {} \/ run.exit \in {"raised", "unset"}

ReportInv ==
    /\ ReportTypeOK
    /\ ProbeInv
    /\ Unheard
    /\ FineIfOk
    /\ Judged

IInv == CronInv /\ ReportInv

-----------------------------------------------------------------------------
(* The probe. *)

LEMMA SettingsAreCounted ==
    /\ Len(Configured) \in Nat
    /\ DOMAIN Configured = 1..Len(Configured)
  BY HealthAssumption

LEMMA ProbeNew == ASSUME ProbeStarts \/ ProbeForgotten PROVE ProbeInv'
<1>1. 0 \in 0..Len(Configured)
  BY SettingsAreCounted
<1>2. up' \in Whereabouts /\ ever' \in Whereabouts
  BY DEF ProbeStarts, ProbeForgotten, Nowhere, Whereabouts
<1>3. PICK pc \in {"idle", "connecting"} :
         probe' = [pc |-> pc, asked |-> 0, stuck |-> 0, parts |-> {}, devices |-> {}]
  BY DEF ProbeStarts, ProbeForgotten, Idle
<1>4. HealthTypeOK'
  BY <1>1, <1>2, <1>3 DEF HealthTypeOK
<1>5. Named(0) = {}
  BY DEF Named
<1>6. DevicesFound'
  BY <1>3, <1>5 DEF DevicesFound, Named
<1> QED
  BY <1>3, <1>4, <1>6 DEF ProbeInv, Found, PartsFound, AllAsked, TurnIfAny

LEMMA ProbeKept == ASSUME ProbeInv, UNCHANGED healthVars PROVE ProbeInv'
  BY DEF healthVars, ProbeInv, HealthTypeOK, Found, PartsFound, DevicesFound, AllAsked,
     TurnIfAny, Named

LEMMA PartNames ==
    /\ Parts \subseteq {"router", "encoder", "follower"}
    /\ "router" \in Parts
    /\ "encoder" \in Parts <=> ~VirtualRotator
    /\ "follower" \in Parts <=> FollowerGiven
  BY HealthAssumption DEF Parts

LEMMA ProbeTypes ==
    ASSUME HealthTypeOK
    PROVE  /\ Len(Configured) \in Nat
           /\ probe.asked \in Nat /\ probe.stuck \in Nat
           /\ probe.parts \subseteq Parts /\ probe.devices \subseteq Devices
           /\ up.parts \subseteq Parts /\ up.devices \subseteq Devices
           /\ ever.parts \subseteq Parts /\ ever.devices \subseteq Devices
<1>1. probe.asked \in 0..Len(Configured) /\ probe.stuck \in 0..Len(Configured)
  BY DEF HealthTypeOK
<1>2. probe.parts \subseteq Parts /\ probe.devices \subseteq Devices
  BY DEF HealthTypeOK
<1>3. /\ up.parts \subseteq Parts /\ up.devices \subseteq Devices
      /\ ever.parts \subseteq Parts /\ ever.devices \subseteq Devices
  BY DEF HealthTypeOK, Whereabouts
<1> QED
  BY <1>1, <1>2, <1>3, SettingsAreCounted

\* Where a probe may go once it is connecting.
Places == {"devices", "encoder", "follower", "done"}

\* A part's own turn leaves the devices alone.
LEMMA ProbesOne ==
    ASSUME ProbeInv, NEW part \in Parts, NEW pc, NEW found \in Places, NEW gone \in Places,
           Probes(part, pc, found, gone)
    PROVE  /\ UNCHANGED <<up, ever>>
           /\ probe'.asked = probe.asked /\ probe'.stuck = probe.stuck
           /\ probe'.devices = probe.devices
           /\ \/ probe'.pc = found /\ probe'.parts = probe.parts \cup {part} /\ part \in ever.parts
              \/ probe'.pc = gone /\ probe'.parts = probe.parts /\ part \notin up.parts
           /\ HealthTypeOK' /\ Found' /\ DevicesFound'
<1>1. PICK next \in {found, gone}, parts \in {probe.parts, probe.parts \cup {part}} :
         /\ probe' = [probe EXCEPT !.pc = next, !.parts = parts]
         /\ \/ next = found /\ parts = probe.parts \cup {part} /\ part \in ever.parts
            \/ next = gone /\ parts = probe.parts /\ part \notin up.parts
  <2>1. CASE part \in ever.parts /\ probe' = [probe EXCEPT !.pc = found, !.parts = @ \cup {part}]
    BY <2>1
  <2>2. CASE part \notin up.parts /\ probe' = [probe EXCEPT !.pc = gone]
    <3>1. probe' = [probe EXCEPT !.pc = gone, !.parts = probe.parts]
      BY <2>2 DEF ProbeInv, HealthTypeOK
    <3> QED
      BY <2>2, <3>1
  <2> QED
    BY <2>1, <2>2 DEF Probes
<1>2. UNCHANGED <<up, ever>>
  BY DEF Probes
<1>3. /\ probe'.pc = next /\ probe'.parts = parts
      /\ probe'.asked = probe.asked /\ probe'.stuck = probe.stuck
      /\ probe'.devices = probe.devices
  BY <1>1 DEF ProbeInv, HealthTypeOK
<1>4. HealthTypeOK'
  <2>1. parts \in SUBSET Parts
    BY <1>1, ProbeTypes DEF ProbeInv
  <2>2. next \in {"idle", "connecting", "devices", "encoder", "follower", "done"}
    BY <1>1 DEF Places
  <2> QED
    BY <1>1, <1>2, <2>1, <2>2 DEF ProbeInv, HealthTypeOK
<1>5. Found'
  BY <1>1, <1>2, <1>3 DEF ProbeInv, Found
<1>6. DevicesFound'
  BY <1>2, <1>3 DEF ProbeInv, DevicesFound, Named
<1> QED
  BY <1>1, <1>2, <1>3, <1>4, <1>5, <1>6

LEMMA ConnectsOrNot == ASSUME ProbeInv, ConnectRouter PROVE ProbeInv'
<1>1. Probes("router", "connecting", "devices", AfterDevices) /\ probe.pc = "connecting"
  BY DEF ConnectRouter, Probes
<1>2. /\ AfterDevices \in {"encoder", "follower", "done"}
      /\ AfterDevices = "encoder" => ~VirtualRotator
      /\ AfterDevices = "follower" => VirtualRotator /\ FollowerGiven
      /\ AfterDevices = "done" => VirtualRotator /\ ~FollowerGiven
  BY HealthAssumption DEF AfterDevices, AfterEncoder
<1>3. up.parts \subseteq Parts
  BY ProbeTypes DEF ProbeInv
<1>4. "devices" \in Places /\ AfterDevices \in Places
  BY <1>2 DEF Places
<1>5. PartsFound'
  BY <1>1, <1>2, <1>3, <1>4, ProbesOne, PartNames DEF PartsFound
<1>6. AllAsked'
  BY <1>1, <1>4, ProbesOne, PartNames DEF AllAsked
<1>7. TurnIfAny'
  BY <1>1, <1>2, <1>4, ProbesOne, PartNames DEF TurnIfAny
<1> QED
  BY <1>1, <1>4, <1>5, <1>6, <1>7, ProbesOne, PartNames DEF ProbeInv

LEMMA EncoderOrNot == ASSUME ProbeInv, ProbeRotaryEncoder PROVE ProbeInv'
<1>1. Probes("encoder", "encoder", AfterEncoder, AfterEncoder) /\ probe.pc = "encoder"
  BY DEF ProbeRotaryEncoder, Probes
<1>2. "encoder" \in Parts
  BY <1>1, PartNames DEF ProbeInv, TurnIfAny
<1>3. AfterEncoder = IF FollowerGiven THEN "follower" ELSE "done"
  BY DEF AfterEncoder
<1>4. AfterEncoder \in Places
  BY <1>3 DEF Places
<1>5. PartsFound'
  <2>1. up.parts \subseteq Parts /\ PartsFound
    BY ProbeTypes DEF ProbeInv
  <2> QED
    BY <1>1, <1>2, <1>3, <1>4, <2>1, ProbesOne, PartNames DEF PartsFound
<1>6. AllAsked'
  BY <1>1, <1>2, <1>4, ProbesOne DEF AllAsked, ProbeInv, Named
<1>7. TurnIfAny'
  BY <1>1, <1>2, <1>3, <1>4, ProbesOne DEF TurnIfAny
<1> QED
  BY <1>1, <1>2, <1>4, <1>5, <1>6, <1>7, ProbesOne DEF ProbeInv

LEMMA FollowerOrNot == ASSUME ProbeInv, ProbeFollower PROVE ProbeInv'
<1>1. Probes("follower", "follower", "done", "done") /\ probe.pc = "follower"
  BY DEF ProbeFollower, Probes
<1>2. "follower" \in Parts
  BY <1>1, PartNames DEF ProbeInv, TurnIfAny
<1>3. "done" \in Places
  BY DEF Places
<1>4. PartsFound'
  BY <1>1, <1>2, <1>3, ProbesOne DEF PartsFound, ProbeInv
<1>5. AllAsked'
  BY <1>1, <1>2, <1>3, ProbesOne DEF AllAsked, ProbeInv, Named
<1> QED
  BY <1>1, <1>2, <1>3, <1>4, <1>5, ProbesOne DEF ProbeInv, TurnIfAny

LEMMA DevicesOver == ASSUME ProbeInv, DevicesProbed PROVE ProbeInv'
<1>1. /\ probe' = [probe EXCEPT !.pc = AfterDevices] /\ probe.pc = "devices"
      /\ Unasked = {} /\ UNCHANGED <<up, ever>>
  BY DEF DevicesProbed
<1>2. /\ AfterDevices \in {"encoder", "follower", "done"}
      /\ AfterDevices = "encoder" => ~VirtualRotator
      /\ AfterDevices = "follower" => VirtualRotator /\ FollowerGiven
      /\ AfterDevices = "done" => VirtualRotator /\ ~FollowerGiven
  BY HealthAssumption DEF AfterDevices, AfterEncoder
<1>3. /\ probe'.pc = AfterDevices /\ probe'.asked = probe.asked /\ probe'.stuck = probe.stuck
      /\ probe'.parts = probe.parts /\ probe'.devices = probe.devices /\ HealthTypeOK'
  BY <1>1, <1>2 DEF ProbeInv, HealthTypeOK
<1>4. ASSUME NEW d \in Devices PROVE d[1] \in Named(probe.asked)
  <2>1. PICK i \in 1..Len(Configured) : d = Configured[i] /\ IsConfigured(d)
    BY SettingsAreCounted DEF Devices, Range
  <2>2. probe.asked \in Nat
    BY SettingsAreCounted DEF ProbeInv, HealthTypeOK
  <2>3. CASE i <= probe.asked
    BY <2>1, <2>2, <2>3 DEF Named
  <2>4. CASE i > probe.asked
    BY <1>1, <2>1, <2>2, <2>4, SettingsAreCounted DEF Unasked
  <2> QED
    BY <2>2, <2>3, <2>4, SettingsAreCounted
<1>5. PartsFound'
  <2>1. up.parts \subseteq Parts /\ PartsFound
    BY DEF ProbeInv, HealthTypeOK, Whereabouts
  <2> QED
    BY <1>1, <1>2, <1>3, <2>1, PartNames DEF PartsFound
<1>6. AllAsked'
  BY <1>3, <1>4 DEF AllAsked, Named
<1> QED
  BY <1>1, <1>2, <1>3, <1>5, <1>6 DEF ProbeInv, Found, DevicesFound, TurnIfAny, Named

\* Asking the next provider adds it to those that have been asked, and no other.
LEMMA NextIsNamed ==
    ASSUME ProbeInv, NEW i \in Unasked, \A j \in Unasked : i <= j
    PROVE  /\ i \in 1..Len(Configured) /\ i > probe.asked
           /\ Configured[i][1] \notin Named(probe.asked)
           /\ Named(i) = Named(probe.asked) \cup {Configured[i][1]}
<1>1. probe.asked \in Nat /\ Len(Configured) \in Nat /\ i \in (probe.asked + 1)..Len(Configured)
  BY SettingsAreCounted DEF ProbeInv, HealthTypeOK, Unasked
<1>2. ASSUME NEW j \in 1..i, IsConfigured(Configured[j])
      PROVE  Configured[j][1] \in Named(probe.asked) \cup {Configured[i][1]}
  <2>1. CASE j <= probe.asked
    BY <1>1, <1>2, <2>1 DEF Named
  <2>2. CASE j > probe.asked /\ j < i
    <3>1. j \notin Unasked /\ j \in (probe.asked + 1)..Len(Configured)
      BY <1>1, <2>2 DEF Unasked
    <3> QED
      BY <1>2, <3>1 DEF Unasked
  <2> QED
    BY <1>1, <2>1, <2>2
<1>3. Named(i) \subseteq Named(probe.asked) \cup {Configured[i][1]}
  BY <1>2 DEF Named
<1>4. Named(probe.asked) \subseteq Named(i)
  BY <1>1 DEF Named
<1>5. Configured[i][1] \in Named(i)
  BY <1>1 DEF Named, Unasked
<1> QED
  BY <1>1, <1>3, <1>4, <1>5 DEF Unasked

LEMMA ProviderAsked == ASSUME ProbeInv, ProbeDevices PROVE ProbeInv'
<1>0. PICK i \in Unasked :
      LET listed == {d \in Devices : d[1] = Configured[i][1]} IN
      /\ probe.pc = "devices"
      /\ \A j \in Unasked : i <= j
      /\ \/ /\ probe.stuck = 0
            /\ \E have \in SUBSET (listed \cap ever.devices) :
                  /\ listed \cap up.devices \subseteq have
                  /\ probe' = [probe EXCEPT !.asked = i, !.devices = @ \cup have]
         \/ /\ probe.stuck = 0
            /\ "router" \in up.parts => listed \cap up.devices = {}
            /\ \E hangs \in BOOLEAN : probe' = AfterError(i, hangs)
         \/ probe.stuck # 0 /\ probe' = AfterError(i, FALSE)
      /\ UNCHANGED <<up, ever>>
  BY DEF ProbeDevices, Reported
<1> DEFINE listed == {d \in Devices : d[1] = Configured[i][1]}
<1>1. /\ i \in 1..Len(Configured) /\ i > probe.asked
      /\ Configured[i][1] \notin Named(probe.asked)
      /\ Named(i) = Named(probe.asked) \cup {Configured[i][1]}
  BY <1>0, NextIsNamed
<1>2. /\ probe.asked \in Nat /\ probe.stuck \in Nat /\ probe.stuck <= probe.asked
      /\ Len(Configured) \in Nat
      /\ probe.parts \subseteq Parts /\ probe.devices \subseteq Devices
      /\ up.devices \subseteq Devices
  BY ProbeTypes DEF ProbeInv
<1>3. ASSUME NEW have \in SUBSET (listed \cap ever.devices), NEW stuck \in {probe.stuck, i},
             probe' = [probe EXCEPT !.asked = i, !.stuck = stuck, !.devices = probe.devices \cup have],
             "router" \in up.parts /\ probe.stuck = 0 => listed \cap up.devices \subseteq have,
             stuck # probe.stuck => probe.stuck = 0
      PROVE  ProbeInv'
  <2>1. /\ probe'.pc = "devices" /\ probe'.asked = i /\ probe'.stuck = stuck
        /\ probe'.parts = probe.parts /\ probe'.devices = probe.devices \cup have
        /\ HealthTypeOK'
    <3>1. i \in 0..Len(Configured) /\ stuck \in 0..Len(Configured)
      BY <1>1, <1>2, ProbeTypes DEF ProbeInv, HealthTypeOK
    <3>4. probe.devices \cup have \in SUBSET Devices
      BY <1>2
    <3>2. probe \in [pc: {"idle", "connecting", "devices", "encoder", "follower", "done"},
                     asked: 0..Len(Configured), stuck: 0..Len(Configured),
                     parts: SUBSET Parts, devices: SUBSET Devices]
      BY DEF ProbeInv, HealthTypeOK
    <3>3. up \in Whereabouts /\ ever \in Whereabouts
      BY DEF ProbeInv, HealthTypeOK
    <3> QED
      BY <1>0, <1>3, <3>1, <3>2, <3>3, <3>4 DEF HealthTypeOK
  <2>2. DevicesFound'
    <3>1. SUFFICES ASSUME "router" \in up.parts, NEW d \in up.devices, d[1] \in Named(i)
                   PROVE  d \in probe.devices \cup have \/ (stuck # 0 /\ d[1] \notin Named(stuck))
      BY <1>0, <2>1 DEF DevicesFound, Named
    <3>2. CASE d[1] \in Named(probe.asked)
      <4>1. d \in probe.devices \/ (probe.stuck # 0 /\ d[1] \notin Named(probe.stuck))
        BY <3>1, <3>2 DEF ProbeInv, DevicesFound
      <4> QED
        BY <1>3, <4>1
    <3>3. CASE d[1] = Configured[i][1] /\ d[1] \notin Named(probe.asked)
      <4>1. CASE probe.stuck = 0
        BY <1>2, <1>3, <3>1, <3>3, <4>1
      <4>2. CASE probe.stuck # 0
        <5>1. 1..probe.stuck \subseteq 1..probe.asked
          BY <1>2
        <5>2. Named(probe.stuck) \subseteq Named(probe.asked)
          BY <5>1 DEF Named
        <5> QED
          BY <1>3, <3>3, <4>2, <5>2
      <4> QED
        BY <4>1, <4>2
    <3> QED
      BY <1>1, <3>1, <3>2, <3>3
  <2>3. probe'.stuck <= probe'.asked
    BY <1>1, <1>2, <2>1
  <2> QED
    BY <1>0, <1>3, <2>1, <2>2, <2>3 DEF ProbeInv, Found, PartsFound, AllAsked, TurnIfAny
<1>4. ASSUME probe.stuck = 0, NEW have \in SUBSET (listed \cap ever.devices),
             listed \cap up.devices \subseteq have,
             probe' = [probe EXCEPT !.asked = i, !.devices = probe.devices \cup have]
      PROVE  ProbeInv'
  <2>1. probe' = [probe EXCEPT !.asked = i, !.stuck = probe.stuck, !.devices = probe.devices \cup have]
    BY <1>4 DEF ProbeInv, HealthTypeOK
  <2> QED
    BY <1>3, <1>4, <2>1
<1>5. ASSUME NEW hangs \in BOOLEAN, probe' = AfterError(i, hangs),
             "router" \in up.parts /\ probe.stuck = 0 => listed \cap up.devices = {},
             hangs => probe.stuck = 0
      PROVE  ProbeInv'
  <2>1. probe' = [probe EXCEPT !.asked = i, !.stuck = IF hangs THEN i ELSE probe.stuck,
                               !.devices = probe.devices \cup {}]
    BY <1>5 DEF AfterError, ProbeInv, HealthTypeOK
  <2>2. (IF hangs THEN i ELSE probe.stuck) \in {probe.stuck, i}
    OBVIOUS
  <2> QED
    BY <1>3, <1>5, <2>1, <2>2
<1> QED
  BY <1>0, <1>4, <1>5

LEMMA ProbeGoesOn == ASSUME ProbeInv, HealthNext PROVE ProbeInv'
  BY ConnectsOrNot, ProviderAsked, DevicesOver, EncoderOrNot, FollowerOrNot DEF HealthNext

-----------------------------------------------------------------------------
(* The report. *)

Running == {"checking", "down", "hardware", "availability", "games", "posting", "fallback"}

\* A step of the run that posts nothing, and does not end it unless by an exception.
LEMMA GoesOn ==
    ASSUME ReportInv, ReportTypeOK', ProbeInv', UNCHANGED <<told, lost>>,
           run.pc \in Running, run'.pc \in Running,
           run'.exit = run.exit, FineIfOk'
    PROVE  ReportInv'
  BY DEF ReportInv, Unheard, Judged, Running

LEMMA IsRaised ==
    ASSUME ReportInv, ReportTypeOK', ProbeInv', run.pc \in Running, run' = Raised,
           told' = {} => lost' # {} \/ run'.exit = "raised"
    PROVE  ReportInv'
<1>1. run'.pc = "finally" /\ run'.exit = "raised"
  BY DEF ReportInv, ReportTypeOK, Raised
<1> QED
  BY <1>1 DEF ReportInv, Unheard, FineIfOk, Judged

LEMMA Posts ==
    ASSUME ReportInv, ProbeInv', NEW code \in {"0", "1"}, run' = Returned(code),
           run.pc \in {"down", "posting", "fallback"}, UNCHANGED fine,
           lost' \subseteq {"failed", "rejected"},
           told' \subseteq {"down", "digest", "rejected", "watchdog"},
           told' = {} => lost' # {},
           code = "0" => run.pc = "posting" /\ OverallOk /\ told' = told \cup {"digest"}
    PROVE  ReportInv'
<1>1. /\ run'.pc = "finally" /\ run'.exit = code /\ run'.failed = run.failed
      /\ ReportTypeOK'
  BY DEF ReportInv, ReportTypeOK, ProbeInv, Returned
<1>2. code = "0" => told' = {"digest"} /\ fine' /\ ~run.failed
  BY DEF ReportInv, Unheard, FineIfOk, OverallOk
<1> QED
  BY <1>1, <1>2 DEF ReportInv, Unheard, FineIfOk, Judged

LEMMA AllFoundAllThere == ASSUME ProbeInv, AllOk PROVE AllThere
  BY DEF ProbeInv, HealthTypeOK, Whereabouts, Found, AllOk, AllThere

LEMMA RunStartsKeeps == ASSUME ReportInv, RunStarts PROVE ReportInv'
<1>1. ProbeInv'
  BY ProbeKept DEF ReportInv, RunStarts
<1>2. \/ run' = [pc |-> "checking", hardware |-> "none", games |-> {}, failed |-> FALSE,
                 armed |-> TRUE, exit |-> "none"]
      \/ run' = [pc |-> "ended", hardware |-> "none", games |-> {}, failed |-> FALSE,
                 armed |-> FALSE, exit |-> "unset"]
  BY DEF RunStarts, Started, WithoutSection, Ready
<1>3. ReportTypeOK'
  <2>1. run' \in [pc: {"off", "checking", "down", "hardware", "availability", "games", "posting",
                      "fallback", "finally", "ended"},
                 hardware: {"none", "failed", "ok", "issues"},
                 games: SUBSET Games, failed: BOOLEAN, armed: BOOLEAN,
                 exit: {"none", "0", "1", "raised", "killed", "unset"}]
    <3>1. CASE run' = Started
      BY <3>1 DEF Started, Ready
    <3>2. CASE run' = WithoutSection
      BY <3>2 DEF WithoutSection, Ready
    <3> QED
      BY <3>1, <3>2 DEF RunStarts
  <2>2. told' = {} /\ lost' = {} /\ fine' \in BOOLEAN
    BY DEF RunStarts
  <2> QED
    BY <1>1, <2>1, <2>2 DEF ReportTypeOK, ProbeInv
<1> QED
  BY <1>1, <1>2, <1>3 DEF RunStarts, ReportInv, Unheard, FineIfOk, Judged

LEMMA RunNextKeeps == ASSUME ReportInv, RunNext PROVE ReportInv'
<1> USE DEF Steps, Untold
<1>1. CASE ApiAnswers
  <2>1. ProbeInv'
    BY <1>1, ProbeNew DEF ApiAnswers
  <2>2. /\ run' = [run EXCEPT !.pc = "hardware"] /\ run.pc = "checking"
        /\ UNCHANGED <<told, lost, fine>>
    BY <1>1 DEF ApiAnswers
  <2>3. ReportTypeOK' /\ run'.pc = "hardware" /\ run'.exit = run.exit
    BY <2>1, <2>2 DEF ReportInv, ReportTypeOK, ProbeInv
  <2> QED
    BY <2>1, <2>2, <2>3, GoesOn DEF Running, FineIfOk
<1>2. CASE ApiFails
  <2>1. ProbeInv' /\ UNCHANGED <<told, lost, fine>> /\ run.pc = "checking"
    BY <1>2, ProbeKept DEF ApiFails, ReportInv
  <2>2. CASE run' = [run EXCEPT !.pc = "down"]
    <3>1. ReportTypeOK' /\ run'.pc = "down" /\ run'.exit = run.exit
      BY <2>1, <2>2 DEF ReportInv, ReportTypeOK, ProbeInv
    <3> QED
      BY <2>1, <3>1, GoesOn DEF Running, FineIfOk
  <2>3. CASE run' = Raised
    <3>1. ReportTypeOK' /\ run'.exit = "raised"
      BY <2>1, <2>3 DEF ReportInv, ReportTypeOK, ProbeInv, Raised
    <3> QED
      BY <2>1, <2>3, <3>1, IsRaised DEF Running
  <2> QED
    BY <1>2, <2>2, <2>3 DEF ApiFails
<1>3. CASE TellDown
  <2>1. ProbeInv' /\ run.pc = "down" /\ UNCHANGED fine
    BY <1>3, ProbeKept DEF TellDown, ReportInv
  <2>2. told \subseteq {"down", "digest", "rejected", "watchdog"} /\ lost \subseteq {"failed", "rejected"}
    BY DEF ReportInv, ReportTypeOK
  <2>3. CASE run' = Returned("1") /\ PlainAnswered("down")
    BY <2>1, <2>2, <2>3, Posts DEF PlainAnswered
  <2>4. CASE run' = Raised /\ told' \in {told, told \cup {"down"}} /\ lost' = lost \cup {"failed"}
    <3>1. ReportTypeOK'
      BY <2>1, <2>2, <2>4 DEF ReportInv, ReportTypeOK, ProbeInv, Raised
    <3> QED
      BY <2>1, <2>4, <3>1, IsRaised DEF Running
  <2> QED
    BY <1>3, <2>3, <2>4 DEF TellDown, PostFails
<1>4. CASE HardwareFetched
  <2>1. ProbeInv' /\ run.pc = "hardware" /\ UNCHANGED <<told, lost>>
    BY <1>4, ProbeNew DEF HardwareFetched
  <2>2. PICK result \in {"ok", "issues"} :
           /\ run' = [run EXCEPT !.pc = "availability", !.hardware = result]
           /\ result = "ok" => fine'
    BY <1>4, AllFoundAllThere DEF HardwareFetched, ReportInv
  <2>3. /\ ReportTypeOK' /\ run'.pc = "availability" /\ run'.hardware = result
        /\ run'.exit = run.exit
    BY <1>4, <2>1, <2>2 DEF ReportInv, ReportTypeOK, ProbeInv, HardwareFetched, AllThere
  <2> QED
    BY <2>1, <2>2, <2>3, GoesOn DEF Running, FineIfOk
<1>5. CASE HardwareFails
  <2>1. ProbeInv' /\ run.pc = "hardware" /\ UNCHANGED <<told, lost, fine>>
    BY <1>5, ProbeNew DEF HardwareFails
  <2>2. CASE run' = [run EXCEPT !.pc = "availability", !.hardware = "failed"]
    <3>1. /\ ReportTypeOK' /\ run'.pc = "availability" /\ run'.hardware = "failed"
          /\ run'.exit = run.exit
      BY <2>1, <2>2 DEF ReportInv, ReportTypeOK, ProbeInv
    <3> QED
      BY <2>1, <3>1, GoesOn DEF Running, FineIfOk
  <2>3. CASE run' = Raised
    <3>1. ReportTypeOK' /\ run'.exit = "raised"
      BY <2>1, <2>3 DEF ReportInv, ReportTypeOK, ProbeInv, Raised
    <3> QED
      BY <2>1, <2>3, <3>1, IsRaised DEF Running
  <2> QED
    BY <1>5, <2>2, <2>3 DEF HardwareFails
<1>6. CASE AvailabilityFetched
  <2>1. ProbeInv' /\ run.pc = "availability" /\ UNCHANGED <<told, lost, fine>>
    BY <1>6, ProbeKept DEF AvailabilityFetched, ReportInv
  <2>2. ASSUME NEW games \in SUBSET Games, run' = [run EXCEPT !.pc = "games", !.games = games]
        PROVE  ReportInv'
    <3>1. /\ ReportTypeOK' /\ run'.pc = "games" /\ run'.hardware = run.hardware
          /\ run'.exit = run.exit
      BY <2>1, <2>2 DEF ReportInv, ReportTypeOK, ProbeInv
    <3> QED
      BY <2>1, <3>1, GoesOn DEF Running, FineIfOk, ReportInv
  <2>3. CASE run' = Raised
    <3>1. ReportTypeOK' /\ run'.exit = "raised"
      BY <2>1, <2>3 DEF ReportInv, ReportTypeOK, ProbeInv, Raised
    <3> QED
      BY <2>1, <2>3, <3>1, IsRaised DEF Running
  <2> QED
    BY <1>6, <2>2, <2>3 DEF AvailabilityFetched, Played
<1>7. CASE RunChsh \/ RunQf
  <2>1. ProbeInv' /\ run.pc = "games" /\ UNCHANGED <<told, lost, fine>>
    BY <1>7, ProbeKept DEF RunChsh, RunQf, Plays, ReportInv
  <2>2. ASSUME NEW game \in Games, NEW failed \in BOOLEAN,
               run' = [run EXCEPT !.games = @ \ {game}, !.failed = @ \/ failed]
        PROVE  ReportInv'
    <3>1. /\ ReportTypeOK' /\ run'.pc = "games" /\ run'.hardware = run.hardware
          /\ run'.exit = run.exit
      BY <2>1, <2>2 DEF ReportInv, ReportTypeOK, ProbeInv
    <3> QED
      BY <2>1, <3>1, GoesOn DEF Running, FineIfOk, ReportInv
  <2>3. CASE run' = Raised
    <3>1. ReportTypeOK' /\ run'.exit = "raised"
      BY <2>1, <2>3 DEF ReportInv, ReportTypeOK, ProbeInv, Raised
    <3> QED
      BY <2>1, <2>3, <3>1, IsRaised DEF Running
  <2> QED
    BY <1>7, <2>2, <2>3 DEF RunChsh, RunQf, Plays, Games
<1>8. CASE BuildDigest
  <2>1. ProbeInv' /\ run.pc = "games" /\ UNCHANGED <<told, lost, fine>>
    BY <1>8, ProbeKept DEF BuildDigest, ReportInv
  <2>2. run' = [run EXCEPT !.pc = "posting"]
    BY <1>8 DEF BuildDigest
  <2>3. /\ ReportTypeOK' /\ run'.pc = "posting" /\ run'.hardware = run.hardware
        /\ run'.exit = run.exit
    BY <2>1, <2>2 DEF ReportInv, ReportTypeOK, ProbeInv
  <2> QED
    BY <2>1, <2>3, GoesOn DEF Running, FineIfOk, ReportInv
<1>9. CASE PostSlack
  <2>1. ProbeInv' /\ run.pc = "posting" /\ UNCHANGED fine
    BY <1>9, ProbeKept DEF PostSlack, ReportInv
  <2>2. told \subseteq {"down", "digest", "rejected", "watchdog"} /\ lost \subseteq {"failed", "rejected"}
    BY DEF ReportInv, ReportTypeOK
  <2>3. CASE /\ run' = Returned(IF OverallOk THEN "0" ELSE "1")
             /\ told' = told \cup {"digest"} /\ UNCHANGED lost
    BY <2>1, <2>2, <2>3, Posts
  <2>4. CASE run' = Returned("1") /\ PostFails("digest")
    BY <2>1, <2>2, <2>4, Posts DEF PostFails
  <2> QED
    BY <1>9, <2>3, <2>4 DEF PostSlack
<1>10. CASE DigestRejected
  <2>1. ProbeInv' /\ run.pc = "posting" /\ UNCHANGED <<told, lost, fine>>
    BY <1>10, ProbeKept DEF DigestRejected, ReportInv
  <2>2. run' = [run EXCEPT !.pc = "fallback"]
    BY <1>10 DEF DigestRejected
  <2>3. ReportTypeOK' /\ run'.pc = "fallback" /\ run'.exit = run.exit
    BY <2>1, <2>2 DEF ReportInv, ReportTypeOK, ProbeInv
  <2> QED
    BY <2>1, <2>3, GoesOn DEF Running, FineIfOk
<1>11. CASE FallbackPosted
  <2>1. ProbeInv' /\ run.pc = "fallback" /\ UNCHANGED fine /\ run' = Returned("1")
    BY <1>11, ProbeKept DEF FallbackPosted, ReportInv
  <2>2. told \subseteq {"down", "digest", "rejected", "watchdog"} /\ lost \subseteq {"failed", "rejected"}
    BY DEF ReportInv, ReportTypeOK
  <2> QED
    BY <1>11, <2>1, <2>2, Posts DEF FallbackPosted, PlainAnswered, PostFails
<1>12. CASE DisarmWatchdog
  <2>1. ProbeInv' /\ run.pc = "finally" /\ UNCHANGED <<told, lost, fine>>
    BY <1>12, ProbeKept DEF DisarmWatchdog, ReportInv
  <2>2. /\ ReportTypeOK' /\ run'.pc = "ended" /\ run'.exit = run.exit
        /\ run'.failed = run.failed
    BY <1>12, <2>1 DEF DisarmWatchdog, ReportInv, ReportTypeOK, ProbeInv
  <2> QED
    BY <2>1, <2>2 DEF ReportInv, Unheard, FineIfOk, Judged
<1>13. CASE WatchdogFires
  <2>1. ProbeInv' /\ UNCHANGED fine
    BY <1>13, ProbeNew DEF WatchdogFires
  <2>2. InFlight \subseteq {"down", "digest", "rejected"}
    BY DEF InFlight
  <2>3. /\ told' \subseteq {"down", "digest", "rejected", "watchdog"}
        /\ lost' \subseteq {"failed", "rejected"} /\ (told' = {} => lost' # {})
    BY <1>13, <2>2 DEF WatchdogFires, ReportInv, ReportTypeOK
  <2>4. ReportTypeOK' /\ run'.pc = "ended" /\ run'.exit = "killed"
    BY <1>13, <2>1, <2>3 DEF WatchdogFires, ReportInv, ReportTypeOK, ProbeInv
  <2> QED
    BY <2>1, <2>3, <2>4 DEF ReportInv, Unheard, FineIfOk, Judged
<1>14. CASE HealthNext /\ UNCHANGED <<run, told, lost, fine>>
  <2>1. ProbeInv'
    BY <1>14, ProbeGoesOn DEF ReportInv
  <2> QED
    BY <1>14, <2>1 DEF ReportInv, ReportTypeOK, ProbeInv, Unheard, FineIfOk, Judged
<1> QED
  BY <1>1, <1>2, <1>3, <1>4, <1>5, <1>6, <1>7, <1>8, <1>9, <1>10, <1>11, <1>12, <1>13, <1>14
     DEF RunNext

-----------------------------------------------------------------------------
(* The crontab. *)

LEMMA OwnersApart == Entries \cap Schedulers = {} /\ Entries \cap Commands = {}
  BY CrontabAssumption DEF Commands

LEMMA CommandGoes ==
    ASSUME CronTypeOK, NEW c \in Commands, NEW pc \in {"off", "read", "done", "raised"},
           command' = [command EXCEPT ![c].pc = pc]
    PROVE  /\ command' \in [Commands -> [pc: {"off", "read", "done", "raised"},
                                        lines: SUBSET (Entries \cup Schedulers)]]
           /\ command'[c].pc = pc
           /\ \A d \in Commands : d # c => command'[d] = command[d]
  BY DEF CronTypeOK

\* What a command writes has one job at most, and the user's entries that it has read.
LEMMA WriteCrontabKeeps ==
    ASSUME CronInv, NEW c \in Commands, NEW lines \in SUBSET (Entries \cup Schedulers),
           WriteCrontab(c, lines), \A d, e \in lines \cap Schedulers : d = e,
           calm => lines \cap Entries = entries
    PROVE  CronInv'
<1>1. /\ command' \in [Commands -> [pc: {"off", "read", "done", "raised"},
                                    lines: SUBSET (Entries \cup Schedulers)]]
      /\ command'[c].pc = "done"
      /\ \A d \in Commands : d # c => command'[d] = command[d]
  BY CommandGoes DEF CronInv, WriteCrontab
<1>2. table' = lines /\ UNCHANGED <<entries, calm>>
  BY DEF WriteCrontab
<1> QED
  BY <1>1, <1>2 DEF CronInv, CronTypeOK, OneJob, Jobs, ReadsKept, EntriesKept

LEMMA CronNextKeeps == ASSUME CronInv, CronNext PROVE CronInv'
<1>1. ASSUME NEW c \in Commands, ReadCrontab(c) PROVE CronInv'
  <2>1. PICK lines \in {table, {}} :
           /\ command' = [command EXCEPT ![c] = [pc |-> "read", lines |-> lines]]
           /\ calm' => calm /\ (lines = table \/ table = {})
           /\ calm' \in BOOLEAN
           /\ UNCHANGED <<table, entries>>
    <3>1. calm \in BOOLEAN /\ UNCHANGED <<table, entries>>
      BY <1>1 DEF ReadCrontab, CronInv, CronTypeOK
    <3>2. CASE command' = [command EXCEPT ![c] = [pc |-> "read", lines |-> table]] /\ calm' = calm
      BY <3>1, <3>2, Zenon
    <3>3. CASE /\ command' = [command EXCEPT ![c] = [pc |-> "read", lines |-> {}]]
               /\ calm' = (calm /\ table = {})
      <4>1. (calm' => calm /\ table = {}) /\ calm' \in BOOLEAN
        BY <3>1, <3>3
      <4> QED
        BY <3>1, <3>3, <4>1, Zenon
    <3> QED
      BY <1>1, <3>2, <3>3 DEF ReadCrontab
  <2>2. /\ command' \in [Commands -> [pc: {"off", "read", "done", "raised"},
                                      lines: SUBSET (Entries \cup Schedulers)]]
        /\ command'[c].lines = lines
        /\ \A d \in Commands : d # c => command'[d] = command[d]
    BY <2>1 DEF CronInv, CronTypeOK
  <2> QED
    BY <2>1, <2>2 DEF CronInv, CronTypeOK, OneJob, Jobs, ReadsKept, EntriesKept, Untagged
<1>2. ASSUME NEW c \in Commands, CommandRaises(c) PROVE CronInv'
  <2>1. /\ command' \in [Commands -> [pc: {"off", "read", "done", "raised"},
                                      lines: SUBSET (Entries \cup Schedulers)]]
        /\ command'[c].pc = "raised"
        /\ \A d \in Commands : d # c => command'[d] = command[d]
    BY <1>2, CommandGoes DEF CronInv, CommandRaises
  <2>2. UNCHANGED <<table, entries, calm>>
    BY <1>2 DEF CommandRaises
  <2> QED
    BY <2>1, <2>2 DEF CronInv, CronTypeOK, OneJob, Jobs, ReadsKept, EntriesKept
<1>3. ASSUME NEW c \in Commands, SetSchedule(c) PROVE CronInv'
  <2>1. /\ c \in Schedulers /\ command[c].pc = "read"
        /\ WriteCrontab(c, Untagged(command[c].lines) \cup {c})
    BY <1>3 DEF SetSchedule, Scheduled
  <2>2. Untagged(command[c].lines) \subseteq Entries
    BY DEF Untagged
  <2>3. calm => Untagged(command[c].lines) = entries
    BY <2>1 DEF CronInv, ReadsKept
  <2> QED
    BY <2>1, <2>2, <2>3, OwnersApart, WriteCrontabKeeps
<1>4. ASSUME NEW c \in Commands, RemoveJob(c) PROVE CronInv'
  <2>1. /\ command[c].pc = "read"
        /\ WriteCrontab(c, table) \/ WriteCrontab(c, Untagged(command[c].lines))
    BY <1>4 DEF RemoveJob
  <2>2. Untagged(command[c].lines) \subseteq Entries
    BY DEF Untagged
  <2>3. calm => Untagged(command[c].lines) = entries
    BY <2>1 DEF CronInv, ReadsKept
  <2>4. CASE WriteCrontab(c, table)
    BY <2>4, WriteCrontabKeeps DEF CronInv, CronTypeOK, OneJob, Jobs, EntriesKept
  <2>5. CASE WriteCrontab(c, Untagged(command[c].lines))
    BY <2>2, <2>3, <2>5, OwnersApart, WriteCrontabKeeps
  <2> QED
    BY <2>1, <2>4, <2>5
<1>5. ASSUME NEW f \in Entries, UserEdits(f) PROVE CronInv'
  <2>1. /\ table' \subseteq Entries \cup Schedulers /\ entries' \subseteq Entries
        /\ table' \cap Schedulers = table \cap Schedulers
        /\ calm' => calm /\ \A c \in Commands : command[c].pc # "read"
        /\ calm' \in BOOLEAN /\ UNCHANGED command
    BY <1>5, OwnersApart DEF UserEdits, CronInv, CronTypeOK
  <2>2. table \cap Entries = entries => table' \cap Entries = entries'
    BY <1>5 DEF UserEdits
  <2> QED
    BY <2>1, <2>2 DEF CronInv, CronTypeOK, OneJob, Jobs, ReadsKept, EntriesKept
<1> QED
  BY <1>1, <1>2, <1>3, <1>4, <1>5 DEF CronNext

-----------------------------------------------------------------------------
(* Both together. *)

LEMMA InitIInv == Init => IInv
<1> SUFFICES ASSUME Init PROVE IInv
  OBVIOUS
<1>1. CronInv
  BY DEF Init, CronInit, CronInv, CronTypeOK, OneJob, Jobs, ReadsKept, EntriesKept
<1>2. ProbeInv
  <2>1. 0 \in 0..Len(Configured)
    BY SettingsAreCounted
  <2> QED
    BY <2>1 DEF Init, ReportInit, HealthInit, Idle, Nowhere, Whereabouts, ProbeInv, HealthTypeOK,
       Found, PartsFound, DevicesFound, AllAsked, TurnIfAny
<1>3. ReportInv
  BY <1>2 DEF Init, ReportInit, Ready, ReportInv, ReportTypeOK, ProbeInv, Unheard, FineIfOk, Judged
<1> QED
  BY <1>1, <1>3 DEF IInv

LEMMA NextIInv == ASSUME IInv, [Next]_vars PROVE IInv'
<1>1. ASSUME UNCHANGED cronVars PROVE CronInv'
  BY <1>1 DEF IInv, cronVars, CronInv, CronTypeOK, OneJob, Jobs, ReadsKept, EntriesKept
<1>2. ASSUME UNCHANGED reportVars PROVE ReportInv'
  BY <1>2, ProbeKept
     DEF IInv, reportVars, ReportInv, ReportTypeOK, ProbeInv, Unheard, FineIfOk, Judged
<1>3. CASE CronFires
  BY <1>1, <1>3, RunStartsKeeps DEF IInv, CronFires
<1>4. CASE CronNext /\ UNCHANGED reportVars
  BY <1>2, <1>4, CronNextKeeps DEF IInv
<1>5. CASE RunNext /\ UNCHANGED cronVars
  BY <1>1, <1>5, RunNextKeeps DEF IInv
<1>6. CASE UNCHANGED vars
  BY <1>1, <1>2, <1>6 DEF IInv, vars
<1> QED
  BY <1>3, <1>4, <1>5, <1>6 DEF Next

\* Whatever commands, edits, probes and runs interleave, and wherever the alarm goes off.
THEOREM InductiveInvariant == Spec => []IInv
  BY InitIInv, NextIInv, PTL DEF Spec

\* The types of the crontab, the run and its probe.
THEOREM TypesHold == Spec => []TypeOK
<1>1. IInv => TypeOK
  BY DEF IInv, CronInv, ReportInv, TypeOK
<1> QED
  BY <1>1, InductiveInvariant, PTL

\* However many commands interleave, the report is scheduled once at most, and the
\* user's entries are kept unless a read fails or an edit falls between a read and its
\* write.
THEOREM CrontabIsKept == Spec => []TableIsKept
<1>1. ASSUME CronInv PROVE Cardinality(Jobs) <= 1
  <2>1. CASE Jobs = {}
    BY <2>1, FS_EmptySet
  <2>2. CASE Jobs # {}
    <3>1. PICK c \in Jobs : TRUE
      BY <2>2
    <3>2. Jobs = {c}
      BY <1>1, <3>1 DEF CronInv, OneJob
    <3>3. Cardinality({c}) = 1
      BY FS_Singleton
    <3> QED
      BY <3>2, <3>3
  <2> QED
    BY <2>1, <2>2
<1>2. IInv => TableIsKept
  BY <1>1 DEF IInv, CronInv, EntriesKept, TableIsKept
<1> QED
  BY <1>2, InductiveInvariant, PTL

\* The probe reports nothing reachable that was not there, finds the parts that were there
\* throughout, and with the router there every device whose provider comes before one that
\* hangs, whatever the settings name, in whatever order and how often.
THEOREM ProbeTellsTheTruth == Spec => []ProbeIsTrue
<1>1. ASSUME ProbeInv PROVE ProbeIsTrue
  <2>1. Found
    BY <1>1 DEF ProbeInv
  <2>2. ASSUME probe.pc = "done" PROVE up.parts \subseteq probe.parts
    BY <1>1, <2>2, PartNames DEF ProbeInv, HealthTypeOK, Whereabouts, PartsFound
  <2>3. ASSUME probe.pc = "done", "router" \in up.parts, NEW d \in up.devices \ probe.devices
        PROVE  probe.stuck # 0 /\ d[1] \notin Named(probe.stuck)
    <3>1. d[1] \in Named(probe.asked)
      BY <1>1, <2>3 DEF ProbeInv, AllAsked, HealthTypeOK, Whereabouts
    <3> QED
      BY <1>1, <2>3, <3>1 DEF ProbeInv, DevicesFound
  <2> QED
    BY <2>1, <2>2, <2>3 DEF Found, ProbeIsTrue
<1>2. IInv => ProbeIsTrue
  BY <1>1 DEF IInv, ReportInv
<1> QED
  BY <1>2, InductiveInvariant, PTL

\* A run that exits with 0 has told of a node whose hardware and games were fine.
THEOREM ZeroIsNominal == Spec => []ZeroMeansNominal
<1>1. IInv => ZeroMeansNominal
  BY DEF IInv, ReportInv, Judged, ZeroMeansNominal
<1> QED
  BY <1>1, InductiveInvariant, PTL

\* A run that ends in silence could not reach Slack, has had even a plain text rejected, or
\* an exception has escaped it; or it has found no section, and nobody to tell.
THEOREM SilenceHasAReason == Spec => []SilenceIsExplained
<1>1. IInv => SilenceIsExplained
  BY DEF IInv, ReportInv, Judged, SilenceIsExplained
<1> QED
  BY <1>1, InductiveInvariant, PTL

=============================================================================
