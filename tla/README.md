# pqn-stack, modelled, checked and proved

This directory holds TLA+ models of the node software of the Public Quantum
Network (`src/pqnstack`), the TLC configurations that check them on small
instances, and TLAPS proofs of their main invariants. Paths below are relative
to the root of the repository.

## 1. The system

A *node* is one FastAPI process (`pqnstack/app`) with a single asyncio event
loop, a GUI in a browser, and optical hardware. Nodes talk HTTP to each other.
Inside a laboratory, hardware is reached over ZeroMQ: a *router* process, one or
more *instrument providers* that own the devices, and *clients* that hold proxy
objects (`pqnstack/network`).

| component | state it keeps | operations | talks to |
|---|---|---|---|
| coordination (`app/api/routes/coordination.py`) | role, peer addresses, the open question and its answer in the global `NodeState`; three `asyncio.Event`s | `collect_follower`, `follow_requested`, the websocket with its two tasks, `reset_coordination_state`, `protocol_cancelled`, the SSE stream `state_events` | other nodes (HTTP), the GUI (websocket, SSE), the QKD handlers (shared cancellation event) |
| QKD session (`routes/qkd.py`) | basis lists, bit lists, index, question order, result; `qkd_result_received_event` | submissions of leader and follower, the bit exchange, result, question order | the other node, time tagger node, proxies |
| CHSH and RNG measurements (`routes/chsh.py`, `routes/rng.py`) | progress counters and running flags, an event each | a measurement, a progress stream | the other node, time tagger node, proxies |
| router (`network/router.py`) | tables of providers and clients | registration, forwarding, errors | providers, clients |
| instrument provider (`network/instrument_provider.py`) | its instruments | beats (= registrations), ping, device lists, control of instruments | router |
| client, proxy (`network/client.py`) | one REQ socket | connect, ask, disconnect | router |
| health (`routes/health.py`) | what one probe has found | probes of router, devices, encoder, follower | client, HTTP |
| daily report (`app/daily_report.py`) | the report under construction, a watchdog alarm | probe, play the games, post | the node's own API, Slack |
| crontab manager (`app/cron_manager.py`) | the user's crontab | set, remove, describe the tagged line | `crontab` |
| two-player devices (`pqn/drivers/qkd_driver.py`, `chsh_driver.py`) | players, submissions, readings | join, submit, read, leave | proxies |
| polarimeter (`pqn/drivers/polarimeter.py`) | four sample buffers, last angle | sample, normalise, reset, read | Arduino thread |
| rotary encoder (`pqn/drivers/rotaryencoder.py`) | a serial port and what is on its way | open, ask | the encoder |
| rotators, time tagger, dummies; measurement protocols; CLI; small routes | thin or none | wrappers of vendor libraries, scans, statistics | hardware |

What is hard about it:

* **Interleaving at awaits.** A handler runs without interruption between two
  awaits; at each await anything else may happen to the global state. The
  handshake suspends for as long as a user thinks (up to a minute for its caller).
* **Shared events.** `asyncio.Event`s are set, waited for and cleared by several
  handlers. `set()` wakes every task that waits, even if the flag is cleared
  before the task runs; the task then reads shared state that need not be its own.
* **Best-effort messages.** The announcement of a reset may fail or time out; a
  request may time out at its caller while its handler goes on.
* **Process crashes and broken connections** in the messaging: the router's
  tables are only in memory; sockets reconnect by themselves and drop what they
  cannot deliver.
* **Running flags, caches, submissions and counters** that survive a failed run.
* **Unlocked read-modify-write** of the crontab, and an alarm that may go off in the
  middle of any step of the daily report.
* **Guesses**: the polarimeter guesses the half turn from what it said last, the
  encoder's driver takes the next line for the answer.

`PROJECT.json` lists each place where one of these bites ("hazards") with the
properties about it.

## 2. What makes each component correct

*Coordination.* A node follows only whom its user has accepted; it leads only a
node that accepted it; the two ends of a session agree, or one has announced its
end; no request is forgotten: it is put to the user and answered.
*Messaging.* A request is performed at most once, and a reply is the reply to
the request it is taken for; a provider comes back after any restart; nobody
waits for an answer that cannot come while nothing fails.
*QKD.* Every bit of the key pairs a count with the choices it was taken with, on
both nodes; the follower's result is that of a completed run of its session; both
users are asked the same questions; nobody waits for a peer that has left.
*Progress.* The record tells what the run under way has done, its counts are taken
in the settings they are combined under, and a page sees that the run is over.
*Two-player device.* A player's counts are taken with the plates of the pair it enters
them under, and what a player leaves in its slot has a reason. *Health.* What is reported is
what was there, and one bad provider hides no more than those after it. *Report.* Exit code 0 means that everything was well, a run that says
nothing can be explained, and runs keep coming. *Crontab.* One job at most, and the
entries of the user survive. *Polarimeter.* The angle follows the turn of the light.
*Rotary encoder.* An answer is the answer to the question asked.

## 3. Modules

| module | models |
|---|---|
| `Coordination` | the handshake between nodes: all of `coordination.py` |
| `MCCoordination` | the same for TLC (symmetry, a bound) |
| `CoordinationProofs` | its theorems |
| `RemoteCall` | what the messaging promises: an at-most-once remote call |
| `Messaging` | router, providers, clients and the sockets between them; implements `RemoteCall` |
| `MessagingProofs` | its theorems, the refinement included |
| `QKDSession` | the QKD game of two paired nodes and the resets that race it |
| `MCQKDSession` | the same for TLC (the lists users choose) |
| `QKDSessionProofs` | its theorems |
| `Progress` | the CHSH and fortune measurements of a node and their progress streams |
| `ProgressProofs` | its theorems |
| `TwoPlayerDevice` | `QKDDevice` and the runs of `qkd_run` that share it |
| `MCTwoPlayerDevice` | the same for TLC (symmetry) |
| `TwoPlayerDeviceProofs` | its theorems |
| `Crontab` | the schedule of the daily report in the user's crontab |
| `HealthProbe` | the `/health` handler |
| `DailyReport` | a run of the daily report; extends `HealthProbe`, which it asks |
| `ReportSchedule` | `Crontab` and `DailyReport` composed by the cron daemon |
| `MCReportSchedule` | the same for TLC (the device settings) |
| `ReportProofs` | the theorems about crontab, probe and report |
| `Polarimeter` | the normalising buffers and the unwrapping of the angle |
| `PolarimeterProofs` | its theorems |
| `RotaryEncoder` | the serial protocol of the encoder |
| `RotaryEncoderProofs` | its theorems |
| `MCSeparateParts` | `Crontab`, `Polarimeter` and `RotaryEncoder`, each by itself, for TLC |

### 3.1 Coordination

One action is one *segment*: what a handler does between two awaits. `state[n]`
is the coordination part of `NodeState` (`leaders_name` is always assigned
together with `leaders_address` and is not kept separately), `ask_event`,
`reply_event`, `cancel_event` are the flags of the three events. A call of
`collect_follower` and the `follow_requested` handler it reaches are one record
of `call`, with a position for each end; a websocket with its ask task is a record
of `socket`; a reset and the `protocol_cancelled` handler it reaches a record of
`reset`; an SSE generator a record of `stream`.

| code | actions |
|---|---|
| `collect_follower` | `CollectFollower`, `CollectAnswered`, `CollectFails` |
| `follow_requested` | `FollowRequested`, `FollowWaits` (the wait tasks start), `FollowResumes` |
| `follow_requested_alerts` | `SocketOpen`, `SocketClose`, `SocketReply` (message task), `AskWaits`, `AskUser`, `QuestionSent` (ask task) |
| `reset_coordination_state` | `ResetStart`, `ResetFinish` |
| `protocol_cancelled` | `ProtocolCancelled`, `ProtocolCancelledClears` |
| `state_events` | `StreamOpen`, `StreamWaits`, `StreamTimeout`, `StreamReports`, `StreamClears`, `StreamClose` |

Events are modelled by what `asyncio` does: `set()` moves every waiting task to
"woken" (`FollowWaitersWoken`, `AskWaitersWoken`, `StreamWaitersWoken`), and
`wait()` returns at once when the flag is set. `LocalReset` has no await between
`set()` and `clear()`: tasks are woken but find the flag down. `send_text` gives
way to other tasks only if the write buffer of the socket is full, which
`SlowSockets` permits. One assumption orders tasks: the wait tasks that
`follow_requested` creates start before a user's answer to a later question
arrives (`SocketReply`), because ready tasks of the loop run in the order in which they became ready
and a browser takes longer than one pass.

Two histories serve the properties: `consent[n]`, whom the user of `n` has
accepted since the last reset of `n`, and `notified[n]`, the peers whose reset has
been announced to `n` since they paired.

The environment decides everything else: which calls, resets, pages and streams
there are, what users answer, which requests fail. `OrderlySpec` restricts the
environment only: a call or a reset is started when none is under way anywhere, and
nobody asks the own node to follow (the code would let them: section 6).
That is the use the GUI is built for, and the reference for what only holds then.

### 3.2 Messaging

`up[p]` and `down[p]` are the packets between peer `p` and the router, queues
and network together. `link[p]` says whether `p` is connected. A broken connection
loses what is under way, a prefix of it being delivered to the peer and a
suffix remaining in its send queue; sockets reconnect by themselves; a ROUTER
socket drops what it cannot deliver; a closed socket lingers until its packets
are sent. These definitions stand for libzmq and are marked external.

| code | actions |
|---|---|
| `Router` | `RouterStart`, `RouterKilled`, `HandleRegistration`, `HandlePassPacket` (each with `listen`) |
| `InstrumentProvider` | `ProviderStart`, `Beat`, `ProviderIgnores`, `ProviderAnswers`, `ProviderRejects`, `InstrumentRaises`, `ProviderFails`, `ProviderKilled` |
| `ClientBase` | `Connect`, `Acknowledged`, `RegistrationFails`, `ClientAsks`, `Answered`, `AskTimesOut`, `AskRefused`, `Disconnect` |

An instrument is abstracted to whether a request reaches it and whether it
raises. A REQ socket alternates strictly: after a timeout it refuses to send
(`AskRefused`). `executed` and `outcome` are histories: how often each request has
reached an instrument, and what its client was told.

`RemoteCall` is the abstract promise. `Messaging` implements it under the mapping
*issued = requests made, performed = executed*; TLC checks `Call!Spec` as a
property of the run `messaging_safety`.

### 3.3 QKDSession

`leading` and `following` are the QKD parts of the two `NodeState`s; the same node
leads in every session, and `Pair` stands for the whole handshake of
`Coordination`. A bit is the choice it comes from: choice `<<r, i>>` is
made for bit `i` of run `r`, so that a property can say whose choice a count was
taken with. `position` says for which choice each wave plate was last moved, which is
what the time tagger measures. A request of the leader is handled by the
follower in one action, and the leader goes on with the reply in another. Lists of bases are
what users submit: of any length, the empty one included, and a second one over a first
that is partly served; the code checks none of this, and the default list of the leader has 11
entries where `bitstring_length` is 6. Only the flag that the leader polls looks at a length: the
follower's list must have exactly `BitLength` entries.

| code | actions |
|---|---|
| `submit_qkd_selection_and_start_qkd` | `SubmitBasisListLeader`, `SubmitBasisListFollower` |
| `_wait_for_follower_ready`, `is_follower_ready` | `Poll` (look at the flag, send), `IsFollowerReady`, `PollAnswered`, `PauseOver` |
| `qkd`, `_qkd` | `QKD`, `Begin`, `ChooseBit`, `CountReceived`, `BasisListReceived` |
| `request_qkd_single_pass`, `request_qkd_basis_list`, `submit_result` | `SingleBit`, `RequestBasisList`, `SubmitResult` |
| `measure_correlation` of the time tagger's node | `MeasureCorrelation` |
| `_submit_basis_list_follower` | `SubmitBasisListFollower`, `FollowerWaits`, `FollowerResumes` |
| `request_question_order` | `RequestQuestionOrder`, `LeaderAnswersOrder`, `OrderFetched` |
| `reset_coordination_state`, `protocol_cancelled`, `state_events` | `ResetStart`, `ResetFinish`, `LocalReset`, `ProtocolCancelled`, `ProtocolCancelledClears`, `StreamClears` |

`request_qkd_basis_list` is a plain function, which FastAPI runs in a thread; its few
statements are taken as one step. The pause of 0.4 s and the flag's
0.5 s are not measured: a polling leader may always miss the flag, as it does when a request
takes longer than the difference. Users either do anything (`Spec`), or play again
only once everything of the last session has ended (`SettledSpec`), or, besides, reset
only between games (`OrderlySpec`).

### 3.4 Progress

`progress[g]` is the record of game `g` in `NodeState`, `event[g]` its event,
`run[r]` a request that measures, `page[p]` a stream. A count is abstracted to the
settings it was taken in: `plate` holds those of both plates, `asked` the requests that
are on their way to the follower. One of these may arrive after its leader has
given up, in the middle of the next run.

| code | actions |
|---|---|
| `_chsh` | `ChshStarts`, `FollowerAsked`, `ChshCounts`, `ChshEnds`, `ChshFails` |
| `request_angle_by_basis` of the follower | `FollowerMoves` |
| `fortune` | `FortuneStarts`, `ParityFetched`, `FortuneEnds`, `FortuneFails` |
| `chsh_progress`, `rng_progress` | `PageOpens`, `PageWaits`, `PageSends`, `PageClears`, `PageWakes`, `PageCloses` |

A stream yields an update before it clears the event. Without back pressure the
server writes it and comes back without giving way, so that nothing happens in
between; `SlowPages` are the streams whose socket may keep it waiting. Histories:
`serial` (the games whose runs have not overlapped), `inPlace` (the runs whose
counts were taken in their settings) and `unseen` (pages that owe an update).

### 3.5 TwoPlayerDevice

`players`, `submissions`, `value_gathered` and `value` are the fields of `QKDDevice`.
A value is what it was counted with: the pair for which each side's plates were set
during the whole integration, 0 if they moved. The provider serves one call at a time
(`busy`), but the plates belong to others and move meanwhile. A run may fail at any call, also
while the device counts for it, and the device then goes on; a call whose answer is lost is a
call that was made, by a run that fails next.

| code | actions |
|---|---|
| `add_player`, `remove_player` | `AddPlayer`, `RemovePlayer` |
| `submit` | `Submit`, `MeasureCorrelation`, `MeasureRaises` |
| `get_counts` | `GetCounts` |
| `qkd_run` | `TurnHwp`, `TurnQwp`, `RunFails`, and the calls above in its order |

### 3.6 Crontab, HealthProbe, DailyReport, ReportSchedule

`Crontab` keeps the table as a set of lines: entries of the user, and tagged lines
named after the command that wrote them; it is composed with the report below, and
its own property is checked by itself, with more commands and entries (`MCSeparateParts`). `HealthProbe` probes the parts one after the other, and the
follower only if the request gives its address. What is there is decided before the first
probe, and independently of the handler: some parts and devices are there throughout
(`up`), some only for a time (`ever`), some never. A provider that does not react leaves the
one REQ client of the probe stuck, and `probe.stuck` is the setting that names it.
`DailyReport` has a step for each request with every outcome the code tells apart: an
answer, an error it handles, an exception it does not. The history `told` has the messages
that Slack took, and `lost` says whether a post has failed or Slack has rejected a plain text,
which `_post_plain_slack` does not notice. The message under way when the alarm goes off may
have arrived or not. `ReportSchedule` starts a run whenever the table has a tagged line; without
a `[daily_report]` section it ends at once.

| code | actions |
|---|---|
| `cron_manager.py`, `schedule` and `unschedule` of `cli.py` | `ReadCrontab`, `SetSchedule`, `RemoveJob`, `CommandRaises` |
| `health` and its probes | `ProbeStarts`, `ConnectRouter`, `ProbeDevices`, `DevicesProbed`, `ProbeRotaryEncoder`, `ProbeFollower` |
| `run_daily_report` | `RunStarts`, `ApiAnswers`, `ApiFails`, `TellDown`, `HardwareFetched`, `HardwareFails`, `AvailabilityFetched`, `RunChsh`, `RunQf`, `BuildDigest`, `PostSlack`, `DigestRejected`, `FallbackPosted`, `DisarmWatchdog` |
| the handler of the alarm | `WatchdogFires` |
| the user, the cron daemon (external) | `UserEdits`, `CronFires` |

### 3.7 Polarimeter, RotaryEncoder

The photodiodes tell the angle of the light modulo 180 degrees; `Theta` is the code's guess of
the half turn from the wedges of 60 degrees in which this angle and the last one lie.
`buffers` says whether there are samples and whether the range that normalises them
is empty, a point or a range. The encoder's questions are numbered, and `lines` holds
the numbers of the questions whose answers have arrived.

| code | actions |
|---|---|
| `Buffer.append` | `Sample` |
| `reset`, `start_normalizing`, `stop_normalizing` | `Reset`, `StartNormalizing`, `StopNormalizing` |
| `read` | `ReadAngle`, `ReadNothing` |
| the light (external) | `Turn` |
| `SerialRotaryEncoder.__post_init__` | `OpenChannel`, `Ready`, `HandshakeRead` |
| `SerialRotaryEncoder.read` | `Ask`, `ReadLine`, `ReadTimesOut` |
| the encoder (external) | `EncoderAnswers`, `EncoderIsDeaf` |

## 4. Runs

| run | question | result |
|---|---|---|
| `coordination_safety` | what holds whatever the users do, and is every request put to its user: 2 nodes, 2 calls in any direction and a reset, with two pages that may leave, or with one page that may leave and be slow, calls that may fail and a stream | `TypeOK`, `FollowsOnlyAfterYes`, `LeadsOnlyAccepted`, `IndependentIsClean`, `RequestIsAsked` hold |
| `coordination_orderly` | what orderly use adds: 2 nodes, 3 calls, 2 resets, a page each that stays | `PeersAgree`, `FollowsOnlyWithConsent`, `ResetNotifiesPeer`, `EveryRequestIsAnswered` hold |
| `coordination_two_leaders` | two nodes ask a third | one yes accepts both |
| `messaging_safety` | 2 clients with 2 requests, timeouts, restarts of router and provider, a breaking connection | `TypeOK`, `OwnReply`, `ImplementsRemoteCall` hold |
| `messaging_reconnect` | does a provider come back after any restarts, beside a misconfigured one, and is every request answered that no failure touches | `ProviderReconnects`, `EveryAskIsAnswered` hold |
| `qkd_orderly` | what holds of two games of two bits in two sessions, with both users fetching their questions | `KeysAgree`, `ResultsAgree`, `SameQuestions`, `EverySubmissionReturns` hold |
| `qkd_cancel` | what holds whatever users cancel: resets at any time, one notification lost, an event stream that clears the flag, failing instruments, a run started past the game, lists of any length | `TypeOK`, `ResultsAreComputed`, `FollowerInStep`, `LeaderStopsPolling` hold |
| `progress` | two CHSH runs of 3 trials and a fortune of 2, which may overlap, fail anywhere and leave requests to the follower behind, and a page | `TypeOK`, `ProgressIsTheRuns`, `CountsInPlace`, `NoUpdateLost`, `PageSeesTheEnd` hold |
| `two_player_device` | four runs of 2 pairs that come, fail and leave | `TypeOK`, `OwnPlatesInPlace`, `BothPlatesInPlace`, `LeftBehind` hold |
| `report_schedule` | a schedule and an unschedule command; reports with every outcome of every request and post, and without a section; probes of 3 devices of 2 providers, each there throughout, for a time or never | `TypeOK`, `ProbeIsTrue`, `ZeroMeansNominal`, `SilenceIsExplained`, `ReportsKeepComing` hold |
| `report_silent` | does every run say something while Slack can be reached | not if the first probe of the API times out |
| `separate_parts` | three parts that share nothing, each moving while the others are where they start: two schedule commands, one of which cannot read the table, an unschedule, a user who edits two entries; light that turns by up to 80 degrees between readings, a polarimeter that is normalised, reset and read; an encoder that answers late or never | `TableIsKept`, `FollowsTheTurn`, `BlindUntilNormalized`, `LagIsLate` hold |

The runs that end in a violation quote, in `PROJECT.json`, the line of the
repository that says otherwise. Deadlock is not checked: pages close, users go
away, clients disconnect and runs end, and then nothing has to happen.

Several properties hold under a condition that a history of the model states, and the
histories are there to say how much the code promises and no more: `serial` (runs that
do not overlap) in `ProgressIsTheRuns` and `CountsInPlace`, `lockstep` and `sound` in
those of the device, `calm` in `TableIsKept` and `EveryAskIsAnswered`, `turned` in
`FollowsTheTurn`. What happens outside each condition is in section 6.

**Bounds.** Two nodes give both directions of a session; a third is needed, and
given, where a node is asked by two others. Two calls are what it takes for one
handler to disturb another, three for a session after a session. One reset racing
two calls covers each order of its two halves; one slow, closing page covers the
loss of its task, two pages a GUI on either side, or a page and the one that replaces it. A
behaviour of `coordination_safety` has two pages, or a slow page, a stream and calls that
fail, but not all of these (`PagesOrFailures`); the theorems have any. For the messaging, two clients
interfere only through the router and the provider's queue; two requests are what it takes
to confuse their replies. For the game, two sessions
are what it takes for the first to leave something to the second, and two bits what it takes to shift a
list by one; the two lists a user may choose in orderly use have `BitLength` bases, so that
a game can end, and agree or differ in one position. `qkd_cancel` has a `BitLength` of 1 with lists
that are as long, longer and empty, and a longer default; it has one submission, since
`FollowerInStep` excepts a user that submits twice in a session, and the theorem has any number.
`HighWater` is 1 or 2 instead of 1000: what matters is
that the queue may be full. For the progress, two runs are what it
takes for one to disturb the other, three trials move both plates and each of
them alone, and one page is the case that the properties are about. Four
players are two beyond the slots; two pairs are what it takes to be a round ahead. Two
schedulers, an unscheduler and two entries cover each order of two reads and two writes, one of
them failed. Two providers are what it takes for one to spoil the other, and one of them
has two devices; the follower's address is given and the rotator is not virtual, as then the
probe has all its steps; the theorem covers the other values. The turns of 20 and 60
degrees reach every wedge boundary within the bound of 80, from both sides and on
either side of the limit of 60; three questions let an encoder fall behind by two.
Symmetry is used only in runs without temporal
properties other than action properties and only over identities that have the same constants.

**Fairness.** `Fairness` of `Coordination` is weak fairness of each handler's own
steps: the event loop runs every ready task and timeouts expire. Streams time out
and go on. `UserFairness` says that a user answers the questions put to them; a liveness
claim about a request needs it. Nobody has to start, reset, connect or close
anything. In `Messaging` sockets connect, the router and the providers serve,
receives of a provider time out again and again, and a client's `recv` returns; no process has to
start, and kills are unlimited, so `ProviderReconnects` says what happens once
both processes stay up. In `QKDSession` nodes answer each other and pauses
end; users need not pair, submit or reset. In `Progress` the streams run and their
pauses end; no measurement has to go on. In `ReportSchedule` the cron daemon runs
what is scheduled, and an alarm that is armed goes off: the two clocks are all that
`ReportsKeepComing` needs, so it says that no request that is never answered
stops the reports. `TwoPlayerDevice`, `Polarimeter` and `RotaryEncoder` state no
liveness.

## 5. Proofs

**Coordination.** `CoordinationProofs` proves, for any sets of nodes, calls, sockets, resets and
streams, from `CoordinationAssumption` alone (the subsets named by the constants
are subsets, and the empty address is not a node):

| theorem | property |
|---|---|
| `TypeCorrect` | `TypeOK` |
| `RequestsAreAsked` | `RequestIsAsked` |
| `ConsentPrecedesFollowing` | `FollowsOnlyAfterYes` |
| `AcceptancePrecedesLeading` | `LeadsOnlyAccepted` |
| `IndependenceIsClean` | `IndependentIsClean` |

The inductive invariant `IInv` adds to these what they rest on: records in use
name nodes (`Addressed`), a page that has not been opened belongs to no node and only a slow
one waits for its send (`PagesKnown`), only answered calls are accepted or done
(`CallsInOrder`), a stored yes was said since the last reset (`YesIsMeant`), and an
open question names a leader (`QuestionNamesLeader`). `YesIsMeant` is why
`FollowsOnlyAfterYes` holds although the answer is shared: `LocalReset` clears both
together, so an answer can outlive its question but not a reset. `RequestIsAsked` relates the
event, the request and what pages have shown: a task clears the event only if it has named
the leader or there is no request, and the task of a closed page ends without clearing. There is one
lemma per action; the three functions that wake tasks have a lemma each.

Of `OrderlySpec`, in which a call or a reset begins only when none is under way and nobody
asks the own node:

| theorem | property | under |
|---|---|---|
| `PeersDoAgree` | `PeersAgree` | `TwoNodes`: there are at most two nodes |
| `LeavingIsAnnounced` | `ResetNotifiesPeer` | |
| `FollowersAgreed` | `FollowsOnlyWithConsent` | `[]OnePage`: a node has at most one open page |

All three fail under `Spec`. Their invariant `OInv` adds to `IInv` what one thing at a time
buys: only a reset that is under way cancels anything, and no call is meanwhile
(`OneAtATime`); a node that is asked stays free, remembers by whom it is asked, and once it
has accepted follows that leader until the leader knows (`AskedWhileFree`); nobody leads or
follows itself (`NobodyAlone`, which the users see to: no handler compares the addresses); and the peer that was notified is still the peer when the
await ends (`Announced`), which is why nobody leaves unannounced. `InStep` is
`PeersAgree` with a third case, an acceptance on its way. It needs the two nodes: a leader of
three may collect a second follower and abandon the first (section 6).
For the consent `PInv` adds that questions, replies and yeses are about the one
request being handled (`AskedForCall`, `AnsweredForCall`). Nothing in the code ties them to it. What
does is that a request ends only by a reply, no reset being able to begin, that a reply answers the only
question open, and that a request withdrawn by its caller's timeout still keeps others from
beginning. A second page breaks this, since it keeps its question after the first has
been answered, and with a third node its old yes would be taken for another leader; with
two nodes there is no other leader, and `coordination_orderly` lets both pages be of one node.

**Messaging.** `MessagingProofs` proves, for any providers, clients, requests and
high-water mark, whatever is killed, lost or timed out, from `MessagingAssumption` and
`NoClientIsTarget`: no client is a target. The code addresses providers from the
router's device list, the router, or a name nobody has; with a client as a target
`OwnReply` fails (section 6).

| theorem | property |
|---|---|
| `TypesHold` | `TypeOK` |
| `OwnReplyHolds` | `OwnReply` |
| `RemoteCallImplemented` | `ImplementsRemoteCall`: initial states map to initial states of `RemoteCall`, and each step to a step of it or to a stutter |

The invariant `IInv` says what is under way. A client has one packet at most, in one
queue, since its REQ socket alternates strictly and routers and providers answer a packet by
the one they take (`OnePacket`); that packet belongs to its last request and was not
performed if it still is a request, and once if it is a reply (`Addressed`);
and nothing else in the queues concerns it. Breaking connections only drop packets or cut a
queue in two, so one lemma (`SmallerQueues`) covers all the ways of losing one.
The refinement needs this too: `RemoteCall` performs a request once, so what lies
in a queue must not have been performed.

**QKDSession.** `QKDSessionProofs` proves of `Spec`, which lets users do anything, for any
numbers of runs, submissions, calls and resets and any length of the lists, from
`QKDAssumption`:

| theorem | property |
|---|---|
| `TypesHold` | `TypeOK` |
| `ResultsComputed` | `ResultsAreComputed` |
| `FollowerKeepsStep` | `FollowerInStep` |

`IInv`, the types, has two facts that are more than typing: a run in its loop has fewer
counts than its list has bases, and never more (`Fits`); and the follower keeps no more bits
than it has served. `SInv` adds
what the other two rest on. The follower has a list, and has served bits, only after a
submission in the session it is in (`Served`): that is why a single submission in a session,
however long its list, is never served past its end. A result that is stored was computed by a
run that is done, and while nothing is stored no event is up and nobody has been woken unless a
reset has begun (`Computed`): that is why a follower that wakes, whoever woke it, returns a
run's result or, after a reset, -1.

Of `OrderlySpec`, in which users let a game end before they reset and a reset before they
play, submit once in a session, and pair again when all has ended:

| theorem | property |
|---|---|
| `KeysAreShared` | `KeysAgree` |
| `ResultsAreTheSessions` | `ResultsAgree` |
| `QuestionsAreTheSame` | `SameQuestions` |

None of the three follows from the code alone: each fails under `SettledSpec` (section 6). Their
invariant `OInv` says what this discipline buys, in six parts. Resets and games keep apart
(`Apart`); whatever is under way belongs to the present session (`Sessions`); a node that has
been reset has nothing left of the last one (`Clean`). An order on its way is the leader's
(`OrdersAgree`). The result stored is that of the session's run, and its event is up only for a
submission that has yet to take it, so that none is left for the next session
(`Results`). And the lists on both nodes, the positions of the plates and the counts
of a run are those of its bits, one by one, at each stage of the exchange (`Keys`): a run
begins with empty lists since nobody has exchanged anything in its session (`NotBegun`).
Runs that fail in the middle leave lists that do not fit, which is harmless because
nothing else is begun in that session. A step of a run is described once for all (`RunDoes`), and
so are a submission's (`WaitDoes`) and a quiet one's, of pairing or a reset (`QuietDoes`).

**Progress.** `ProgressProofs` proves, for any runs and streams and up to 16 trials, from
`ProgressAssumption`:

| theorem | property |
|---|---|
| `TypesHold` | `TypeOK` |
| `RecordIsTheRuns` | `ProgressIsTheRuns` |
| `CountedInPlace` | `CountsInPlace` |
| `UpdatesReach` | `NoUpdateLost` |

The invariant adds that runs of a serial game are never under way together
(`OneAtATime`); which requests may still reach the follower's plate, and from
which trial on each plate stands (`PlatesStand`); and that a stream whose socket takes
everything owes nothing while it sends (`SentIsSeen`).

**TwoPlayerDevice.** `TwoPlayerDeviceProofs` proves, for any number of users and pairs, from
`TwoPlayerAssumption`:

| theorem | property |
|---|---|
| `TypesHold` | `TypeOK` |
| `OwnPlatesHold` | `OwnPlatesInPlace` |
| `BothPlatesHold` | `BothPlatesInPlace` |
| `LeftoversExplained` | `LeftBehind` |

Each slot has one holder whose plates are where it set them (`Slotted`), and what is
being or has been counted for a submission was in its own setting (`OwnCounts`). In
lockstep the device is in a round (`InRound`): a player that has read is one pair ahead,
one that has not is at this pair, a free slot is where a new player begins, and the
value is the round's. `OwnCounts` does without lockstep, which is why own
plates are right even out of step, and the other side's only in step. `LeftBehind`
needs no lockstep either: a run that has read its last pair while its submission is still to be
read has read a -1 (`DoneInTime`), and the barrier leaves neither submissions nor readings.

**Crontab, HealthProbe, DailyReport.** `ReportProofs` proves of their composition
`ReportSchedule`, for any commands, entries, settings and order of the providers, from
`CrontabAssumption` and `HealthAssumption`:

| theorem | property |
|---|---|
| `TypesHold` | `TypeOK` |
| `CrontabIsKept` | `TableIsKept` |
| `ProbeTellsTheTruth` | `ProbeIsTrue` |
| `ZeroIsNominal` | `ZeroMeansNominal` |
| `SilenceHasAReason` | `SilenceIsExplained` |

`CronInv` says what a command that has read holds (`ReadsKept`): its later
write is then harmless. `ReportInv` follows the verdict: a probe finds nothing that is not
there at any time (`Found`), has found each part that is there throughout once its turn is over
(`PartsFound`), and each device of the providers asked so far up to one that hung
(`DevicesFound`), and asks all of them (`AllAsked`); a run judges by such a probe (`FineIfOk`),
it has told nothing and nothing of it has been refused before it posts (`Unheard`), wherever
the alarm goes off (`Judged`).

**Polarimeter.** `PolarimeterProofs` proves, for any turns of the light and any bound on
them, from `PolarimeterAssumption` alone (turns are integers, the bound a number):

| theorem | statement |
|---|---|
| `PolTypeCorrect` | `PolTypeOK` is an invariant |
| `StaysInStep` | `InStep` is: what was reported last is the angle of then, or its opposite |
| `ReadingFollowsTheTurn` | the action property `FollowsTheTurn` |
| `StaysBlind` | the action property `BlindUntilNormalized` |

The inductive invariant is `PolTypeOK /\ InStep`. `InStep` is what relates the two
angles across any number of turns and readings, fast ones included: an error is always half a
turn, so the reported angle is one the wedges can start from. The key lemma,
`WedgesTellTheHalf`, is about the code's arithmetic alone: from any angle, after any
turn of 60 degrees at most, comparing wedges finds the right half. TLC checks
it on turns of 20 and 60 degrees from two angles; the theorem is about every angle.

**RotaryEncoder.** `RotaryEncoderProofs` proves `EncTypeOK` (`EncTypesHold`) and `LagIsLate`
(`LateAnswersLag`) for any number of questions. `lag` is only known when an answer is read, so the
invariant says of each answer on its way how old its question will be by then: as many
answers come before it as there are lines and unheard questions ahead
(`LinesInStep`, `HeardInStep`), and no more of them than reads that came too early (`FewToCome`).

**Only model-checked.** Liveness under fairness and whatever needs ENABLED are beyond the
prover: `ProviderReconnects`, `EveryAskIsAnswered`, `EveryRequestIsAnswered`,
`EverySubmissionReturns`, `LeaderStopsPolling`, `PageSeesTheEnd`, `ReportsKeepComing`. All
other properties of the passing runs are theorems.

## 6. Limits of the code that the models show

* Two nodes that ask each other at the same time both accept, and a follower becomes
  a leader: `collect_follower` does not look at its own role after the await.
* A session that begins while a reset awaits its notification is wiped out
  unannounced: the peer is read before the await, the state cleared after it.
* A page whose event stream is in its pause of 1 s misses a cancellation that
  is signalled for 0.5 s.
* A client whose request timed out cannot make another (`AskRefused`): its REQ socket still owes a receive,
  although the comment above `send` promises that the client remains usable.
* No length of a QKD list is checked. A shorter list submitted over one that is partly served
  leaves the follower's index past its end; a follower's list of another length than
  `bitstring_length` is never ready, and its leader polls for ever; the leader's default list has
  11 bases for a `bitstring_length` of 6, so that `POST /qkd` with the defaults runs past a
  follower's list that is ready, and fails.
* A second game in a session is refused (the follower's index is at its end) and the
  follower returns the first's result; a result left by a cancelled wait, or
  stored after a reset, is returned by the next session's follower.
* A leader that collects a second follower abandons the first without a word
  (`collect_follower` looks at nothing of its own); with three nodes even orderly
  use breaks `PeersAgree`.
* A node may collect itself: neither `collect_follower` nor `follow_requested` compares the
  addresses. If its user says yes it becomes its own follower and, with the answer, a LEADER
  whose follower follows nobody: `PeersAgree` fails.
* A second page of the same node shares one listening flag with the first: the first to close
  clears it, and the node is not asked any more although a page is open.
* The answer is read from the shared state by whichever handler wakes: with a third
  node or a stale answer (`user_response` outlives a closed question), a node may
  follow somebody its user was not asked about. `FollowsOnlyWithConsent` holds only
  in orderly use, and with three nodes only if each has one page.
* `InstrumentProvider.start` sets `running` right after its first beat is sent; nothing
  waits for the router's acknowledgement, so the timeout of ten beats it announces never
  happens.
* A call that times out at the leader leaves a follower without a leader until
  the follower is reset.
* Clients do not register again: after a restart of the router a connected
  client gets no reply any more and waits out its timeout.
* A request that arrives while a refusal is processed is wiped out with it and never
  answered: `EveryRequestIsAnswered` fails under `FairSpec` of `Coordination`. The
  same happens to a question that a page is asked while its socket is slow.
* A follower whose user resets while it waits for its result takes the wake-up for
  the result and returns -1 bits, and a leader that is reset in the middle of a run
  goes on and leaves a bit that shifts the next key: `ResultsAgree` and `KeysAgree`
  fail under `SettledSpec` of `QKDSession`.
* A measurement that fails leaves its running flag up: progress is reported for a
  run that is over (`ProgressIsTheRuns` allows for it).
* Runs of a game that overlap share one counter, one flag and the plates: progress
  passes its total and the first to finish says that nothing runs. Nothing keeps them
  apart, and a report whose request timed out starts such an overlap.
* A stream with a slow socket clears an update it has not shown, and of two pages of
  a game each takes updates from the other.
* `get_counts` answers -1 when it is not ready, while `qkd_run` waits for something other than
  `None`: a player that reads early enters -1. Out of lockstep the device counts
  once more for a second submission and counts with one side's plates of another pair.
* A player whose run fails keeps its slot and its submission, so that later runs find no slot.
* A player that leaves after a -1 for its last pair, or before the other has read, leaves its
  submission: the next owner of the slot makes the device count before it has set its plates, or
  once more (`LeftBehind` says when).
* A daily report that meets a timeout of its first probe or an answer it cannot
  parse ends without a message.
* `_post_plain_slack` does not look at Slack's answer. A webhook that has been revoked rejects the
  digest and the plain text after it, and the run ends with 1 and no message, although
  `_post_slack` is there so that operators are not left "silently receiving nothing" (it speaks of
  wrong formatting). Without a `[daily_report]` section a run ends the same way.
* Any failure of `crontab -l` reads as an empty table, and setting the schedule then
  drops the entries of the user.
* A provider that hangs makes every provider after it look dead in `/health`, and none
  before it: `ProbeIsTrue` says exactly this.
* The polarimeter reports an angle off by half a turn after a turn of 61 degrees or
  more, until it is reset; and after a reset it reports 0 until it is normalised again.
* An answer of the rotary encoder that comes too late is taken for the answer to the
  next question, and nothing puts the two back in step.
* A client that is sent a request by another client takes it for its reply. No
  code does that; `Targets` of the runs are providers and names nobody has.

## 7. Not modelled

* Rotators, time tagger, dummies and the instrument base classes: wrappers of vendor
  libraries and declarations, without a state of their own.
* Measurement protocols: scans and floating point statistics; only `qkd_run`, which
  coordinates two processes, is in `TwoPlayerDevice`.
* The time tagger, debug and games routes, and the commands that start processes from
  configuration files: pure I/O.

Left out of what is modelled:

* `QKDSession`: the emoji, and how a count is turned into a bit.
* `Messaging`: the contents of payloads, packets between routers, and a client
  that reconnects under its old name.
* `Progress`: the expectation values, and `chsh_request_basis`, of which only the
  index counts.
* `TwoPlayerDevice`: `CHSHDevice`, whose one operation calls a protocol.
* `Crontab`: `describe_schedule` and the prompts, which change nothing. The entries of
  the user are distinct.
* `HealthProbe`, `DailyReport`: latencies, purposes, error texts and the layout of the
  digest. One report
  runs at a time, since its alarm goes off after half an hour and the schedule is hourly at most.
* `Polarimeter`: the four buffers are in step, angles are whole degrees, and the sensor
  is mounted so that its averages turn with the light.
* `RotaryEncoder`: the mock, a constant. Lines are whole.

What a reset does to the QKD state is in `QKDSession`, not in `Coordination`.

## 8. Plan

Done: every component named in section 1 that has a state of its own, and the
theorems of section 5. What is left, in this order:

1. `Pairing`: an abstract session (two nodes pair by consent, either ends it),
   implemented by `Coordination` in orderly use. `OInv` and `PInv` hold what its steps need.
2. `FollowsOnlyWithConsent` of two nodes without `OnePage`, from the fact that nobody is ever
   asked about itself.
