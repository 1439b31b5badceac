------------------------------ MODULE Progress -------------------------------
(***************************************************************************)
(* The measurements of a node that report their progress: _chsh, which     *)
(* drives a half wave plate of its own and one of the follower, and the    *)
(* fortune of rng.py.  Each game has one progress record in the node's     *)
(* state and one asyncio event, shared by its runs and by the pages that   *)
(* stream the progress.  An action is what runs between two awaits.        *)
(***************************************************************************)
EXTENDS Naturals

CONSTANTS
    ChshRuns,   \* the POST /chsh requests
    Fortunes,   \* the GET /rng/fortune requests
    ChshPages,  \* the GET /chsh/progress streams
    RngPages,   \* the GET /rng/progress streams
    SlowPages,  \* the streams whose socket may keep the send waiting
    ChshTotal,  \* bound: how many of the 16 trials a run makes
    FortuneSize \* the fortune_size of the requests

Games == {"chsh", "rng"}
Runs == ChshRuns \cup Fortunes
Pages == ChshPages \cup RngPages
RunsOf == [chsh |-> ChshRuns, rng |-> Fortunes]
Total == [chsh |-> ChshTotal, rng |-> FortuneSize]
Watches(p) == IF p \in ChshPages THEN "chsh" ELSE "rng"

ASSUME ProgressAssumption ==
    /\ ChshRuns \cap Fortunes = {}
    /\ ChshPages \cap RngPages = {}
    /\ SlowPages \subseteq Pages
    /\ ChshTotal \in 1..16
    /\ FortuneSize \in Nat \ {0}

VARIABLES
    progress, \* the node's <game>_running, _progress_current and _progress_total
    event,    \* chsh_progress_event and rng_progress_event
    run,      \* where each run is and how many counts it has
    page,     \* where each stream is and what it has sent last
    plate,    \* the settings of the node's plate and of the follower's
    asked,    \* the requests on their way to the follower: run and setting
    serial,   \* history: the games of which no run has begun while another, or its
              \* request, was under way
    inPlace,  \* history: the runs whose counts were all taken in their setting
    unseen    \* history: the pages open since an update they have not sent

measuring == <<run, plate, asked, serial, inPlace>>
vars == <<progress, event, run, page, plate, asked, serial, inPlace, unseen>>

-----------------------------------------------------------------------------
\* The settings of trial n of a run: the basis angle of this node and its
\* orthogonal, the basis index of the follower and its orthogonal.
OwnSetting(n) == <<n \div 8, (n \div 2) % 2>>
FollowerSetting(n) == <<(n \div 4) % 2, n % 2>>
Unset == <<2, 2>>
Settings == (0..1) \X (0..1)

Snapshots == [running: BOOLEAN, current: Nat, total: Nat]
Nothing == [running |-> FALSE, current |-> 0, total |-> 0]

RunStates == {"off", "moving", "asking", "counting", "finished", "failed"}

TypeOK ==
    /\ progress \in [Games -> Snapshots]
    /\ event \in [Games -> BOOLEAN]
    /\ run \in [Runs -> [pc: RunStates, counts: Nat, bad: BOOLEAN]]
    /\ \A g \in Games : \A r \in RunsOf[g] : run[r].counts <= Total[g]
    /\ page \in [Pages -> [pc: {"off", "waiting", "woken", "sending", "sleeping"},
                           shown: Snapshots]]
    /\ plate \in [own: Settings \cup {Unset}, follower: Settings \cup {Unset}]
    /\ asked \subseteq ChshRuns \X Settings
    /\ serial \subseteq Games
    /\ inPlace \subseteq ChshRuns
    /\ unseen \subseteq Pages

Init ==
    /\ progress = [chsh |-> [running |-> FALSE, current |-> 0, total |-> 16],
                   rng |-> Nothing]
    /\ event = [g \in Games |-> FALSE]
    /\ run = [r \in Runs |-> [pc |-> "off", counts |-> 0, bad |-> FALSE]]
    /\ page = [p \in Pages |-> [pc |-> "off", shown |-> Nothing]]
    /\ plate = [own |-> Unset, follower |-> Unset]
    /\ asked = {}
    /\ serial = Games
    /\ inPlace = ChshRuns
    /\ unseen = {}

UnderWay(r) == run[r].pc \notin {"off", "finished", "failed"}

\* Event.set(): the waiting streams are woken, even if the event is cleared before
\* they run.
Announce(g) ==
    /\ event' = [event EXCEPT ![g] = TRUE]
    /\ page' = [p \in Pages |->
                  IF Watches(p) = g /\ page[p].pc = "waiting"
                  THEN [page[p] EXCEPT !.pc = "woken"] ELSE page[p]]
    /\ unseen' = unseen \cup {p \in Pages : Watches(p) = g /\ page[p].pc # "off"}

Unannounced == UNCHANGED <<progress, event, page, unseen>>

Goto(r, pc) == run' = [run EXCEPT ![r].pc = pc]

-----------------------------------------------------------------------------
(* What the runs of both games do. *)

\* No run looks whether another one is under way.
Begins(r, g, pc) ==
    /\ run[r].pc = "off"
    /\ Goto(r, pc)
    /\ progress' = [progress EXCEPT ![g] = [running |-> TRUE, current |-> 0,
                                            total |-> Total[g]]]
    /\ Announce(g)
    /\ serial' = IF \A s \in RunsOf[g] : ~UnderWay(s) /\ asked \cap ({s} \X Settings) = {}
                 THEN serial ELSE serial \ {g}
    /\ UNCHANGED <<plate, asked, inPlace>>

Counted(g) == [progress EXCEPT ![g].current = @ + 1]

Counts(r, g, pc, bad) ==
    /\ run' = [run EXCEPT ![r] = [pc |-> pc, counts |-> @.counts + 1, bad |-> bad]]
    /\ progress' = Counted(g)
    /\ Announce(g)

\* Mutant: the flag stays up.
StaysUp(g) == progress

TakenDown(g) == [progress EXCEPT ![g].running = FALSE]

\* Mutant: the end is recorded and not announced.
EndsSilently(r, g) ==
    /\ run[r].counts = Total[g]
    /\ Goto(r, "finished")
    /\ progress' = TakenDown(g)
    /\ UNCHANGED <<event, page, unseen>>

Ends(r, g) ==
    /\ run[r].counts = Total[g]
    /\ Goto(r, "finished")
    /\ progress' = TakenDown(g)
    /\ Announce(g)

-----------------------------------------------------------------------------
(* _chsh *)

ChshStarts(r) == Begins(r, "chsh", "moving")

\* Mutant: the plate is moved once for each basis of the follower.
MovesOwnSeldom(n) == n % 4 = 0

MovesOwn(n) == n % 2 = 0

\* Mutant: the loop goes once too often.
OneMoreTrial(r) == run[r].counts <= ChshTotal

TrialsLeft(r) == run[r].counts < ChshTotal

\* The plate is moved, synchronously, before the first of two trials; then the
\* follower is asked to move its own.
FollowerAsked(r) ==
    LET n == run[r].counts IN
    /\ run[r].pc = "moving"
    /\ TrialsLeft(r)
    /\ Goto(r, "asking")
    /\ plate' = IF MovesOwn(n) THEN [plate EXCEPT !.own = OwnSetting(n)] ELSE plate
    /\ asked' = asked \cup {<<r, FollowerSetting(n)>>}
    /\ UNCHANGED <<serial, inPlace>>
    /\ Unannounced

\* request_angle_by_basis on the follower: the move is done when it answers.  The
\* leader may have given up waiting.
FollowerMoves(r, setting) ==
    /\ <<r, setting>> \in asked
    /\ asked' = asked \ {<<r, setting>>}
    /\ plate' = [plate EXCEPT !.follower = setting]
    /\ run' = IF run[r].pc = "asking" THEN [run EXCEPT ![r].pc = "counting"] ELSE run
    /\ UNCHANGED <<serial, inPlace>>
    /\ Unannounced

\* The integration of the time tagger is over.
ChshCounts(r) ==
    /\ run[r].pc = "counting"
    /\ Counts(r, "chsh", "moving", FALSE)
    /\ inPlace' = IF plate = [own |-> OwnSetting(run[r].counts),
                              follower |-> FollowerSetting(run[r].counts)]
                  THEN inPlace ELSE inPlace \ {r}
    /\ UNCHANGED <<plate, asked, serial>>

ChshEnds(r) ==
    /\ run[r].pc = "moving"
    /\ Ends(r, "chsh")
    /\ UNCHANGED <<plate, asked, serial, inPlace>>

\* The device is not found, a move raises, the follower refuses or its request times
\* out, the time tagger fails: the exception leaves the progress as it is.
ChshFails(r) ==
    /\ UnderWay(r)
    /\ Goto(r, "failed")
    /\ \/ UNCHANGED asked
       \/ run[r].pc = "asking" /\ asked' = {a \in asked : a[1] # r}
    /\ UNCHANGED <<plate, serial, inPlace>>
    /\ Unannounced

-----------------------------------------------------------------------------
(* fortune *)

\* A size that is not positive is refused before anything is touched.
FortuneStarts(r) == Begins(r, "rng", "counting")

\* An answer that is not a list of parities is a trial like another; only when the
\* bits are put together does it raise.
ParityFetched(r) ==
    /\ run[r].pc = "counting"
    /\ run[r].counts < FortuneSize
    /\ \E bad \in BOOLEAN : Counts(r, "rng", "counting", run[r].bad \/ bad)
    /\ UNCHANGED <<plate, asked, serial, inPlace>>

FortuneEnds(r) ==
    /\ run[r].pc = "counting"
    /\ ~run[r].bad
    /\ Ends(r, "rng")
    /\ UNCHANGED <<plate, asked, serial, inPlace>>

\* A request raises or its answer is not JSON, or the bits cannot be put together.
FortuneFails(r) ==
    /\ run[r].pc = "counting"
    /\ run[r].counts = FortuneSize => run[r].bad
    /\ Goto(r, "failed")
    /\ UNCHANGED <<plate, asked, serial, inPlace>>
    /\ Unannounced

-----------------------------------------------------------------------------
(* The progress streams *)

PageGoes(p, pc) ==
    /\ page' = [page EXCEPT ![p].pc = pc]
    /\ UNCHANGED <<progress, measuring>>

PageOpens(p) ==
    /\ page[p].pc = "off"
    /\ page' = [page EXCEPT ![p] = [pc |-> "waiting", shown |-> Nothing]]
    /\ UNCHANGED <<progress, event, unseen, measuring>>

\* The event is set already, or the wait ends after a second with a heartbeat.
PageWaits(p) ==
    /\ page[p].pc = "waiting"
    /\ PageGoes(p, IF event[Watches(p)] THEN "woken" ELSE "sleeping")
    /\ UNCHANGED <<event, unseen>>

\* The record is read when the stream runs again, not when the event was set.
PageSends(p) ==
    /\ page[p].pc = "woken"
    /\ page' = [page EXCEPT ![p] = [pc |-> "sending", shown |-> progress[Watches(p)]]]
    /\ unseen' = unseen \ {p}
    /\ UNCHANGED <<progress, event, measuring>>

PageClears(p) ==
    /\ page[p].pc = "sending"
    /\ PageGoes(p, "sleeping")
    /\ event' = [event EXCEPT ![Watches(p)] = FALSE]
    /\ UNCHANGED unseen

\* Mutant: the event is cleared before it is waited for.
PageClearsAndWaits(p) ==
    /\ page[p].pc = "sleeping"
    /\ PageGoes(p, "waiting")
    /\ event' = [event EXCEPT ![Watches(p)] = FALSE]
    /\ UNCHANGED unseen

PageWakes(p) ==
    /\ page[p].pc = "sleeping"
    /\ PageGoes(p, "waiting")
    /\ UNCHANGED <<event, unseen>>

PageCloses(p) ==
    /\ page[p].pc # "off"
    /\ page' = [page EXCEPT ![p] = [pc |-> "off", shown |-> Nothing]]
    /\ unseen' = unseen \ {p}
    /\ UNCHANGED <<progress, event, measuring>>

-----------------------------------------------------------------------------
PageStep(p) == PageWaits(p) \/ PageSends(p) \/ PageWakes(p)

ChshStep(r) ==
    \/ ChshStarts(r)
    \/ FollowerAsked(r)
    \/ \E setting \in Settings : FollowerMoves(r, setting)
    \/ ChshCounts(r)
    \/ ChshEnds(r)
    \/ ChshFails(r)

FortuneStep(r) ==
    FortuneStarts(r) \/ ParityFetched(r) \/ FortuneEnds(r) \/ FortuneFails(r)

\* A send that need not wait keeps the event loop until the event is cleared.
Next ==
    \/ \E p \in Pages : PageClears(p)
    \/ /\ \A p \in Pages \ SlowPages : page[p].pc # "sending"
       /\ \/ \E p \in Pages : PageStep(p) \/ PageOpens(p) \/ PageCloses(p)
          \/ \E r \in ChshRuns : ChshStep(r)
          \/ \E r \in Fortunes : FortuneStep(r)

Spec == Init /\ [][Next]_vars

\* The event loop runs what is ready and time goes by.  Nobody has to measure.
Fairness ==
    \A p \in Pages : WF_vars(PageStep(p)) /\ WF_vars(PageClears(p))

FairSpec == Spec /\ Fairness

-----------------------------------------------------------------------------
\* While the runs of a game come one after the other, the record tells what the one
\* under way has done: it counts, it never passes its total, and it is up.  In any
\* case it is up only while a run is under way or because one has failed: a measurement
\* that ends takes it down, one that raises leaves it up, although it is to say
\* "whether CHSH measurement is currently running".
ProgressIsTheRuns ==
    \A g \in Games :
        /\ g \in serial => \A r \in RunsOf[g] : UnderWay(r) =>
              progress[g] = [running |-> TRUE, current |-> run[r].counts, total |-> Total[g]]
        /\ progress[g].running => \E r \in RunsOf[g] : UnderWay(r) \/ run[r].pc = "failed"

\* While they come one after the other, every coincidence is counted with the plates
\* of both nodes in the settings it is combined under, although runs may fail anywhere
\* and leave the plates where they are.
CountsInPlace == "chsh" \in serial => inPlace = ChshRuns

\* An update is never lost on the only page of a game: it is shown, or the event
\* still stands, or the page has been woken and is about to show it.
NoUpdateLost ==
    \A p \in Pages \ SlowPages :
        /\ p \in unseen
        /\ \A q \in Pages : Watches(q) = Watches(p) => q = p
        => event[Watches(p)] \/ page[p].pc = "woken"

\* A page that is left open shows that a run has ended, unless the next one begins.
PageSeesTheEnd ==
    \A p \in Pages \ SlowPages :
        page[p].shown.running /\ ~progress[Watches(p)].running
            ~> ~page[p].shown.running \/ progress[Watches(p)].running

=============================================================================
