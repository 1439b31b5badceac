--------------------------- MODULE ProgressProofs ---------------------------
(***************************************************************************)
(* What the progress of a measurement tells, for any number of runs and    *)
(* streams: as long as runs come one after the other.                      *)
(***************************************************************************)
EXTENDS Progress, TLAPS

\* Runs that come one after the other are not under way together.
OneAtATime ==
    \A g \in Games : g \in serial =>
        \A r, s \in RunsOf[g] : UnderWay(r) /\ UnderWay(s) => r = s

\* A run begins with no counts, and a trial is within the loop over the settings.
InTheLoop ==
    /\ \A r \in Runs : run[r].pc = "off" => run[r].counts = 0
    /\ \A r \in ChshRuns : run[r].pc \in {"asking", "counting"} => run[r].counts < ChshTotal

\* The run under way is the only one whose request may reach the follower's plate, and
\* only while it waits for it; its own plate stands from the first of two trials on.
PlatesStand ==
    "chsh" \in serial => \A r \in ChshRuns : UnderWay(r) =>
        /\ \A a \in asked : /\ a = <<r, FollowerSetting(run[r].counts)>>
                            /\ run[r].pc = "asking"
        /\ run[r].pc # "moving" \/ run[r].counts % 2 = 1 =>
              plate.own = OwnSetting(run[r].counts)
        /\ run[r].pc = "counting" => plate.follower = FollowerSetting(run[r].counts)

\* Nothing happens between a send that need not wait and the clearing of the event.
SentIsSeen ==
    \A p \in Pages \ SlowPages : page[p].pc = "sending" => p \notin unseen

IInv ==
    /\ TypeOK
    /\ OneAtATime
    /\ InTheLoop
    /\ PlatesStand
    /\ SentIsSeen
    /\ ProgressIsTheRuns
    /\ CountsInPlace
    /\ NoUpdateLost

-----------------------------------------------------------------------------
LEMMA GamesAndRuns ==
    /\ RunsOf["chsh"] = ChshRuns /\ RunsOf["rng"] = Fortunes
    /\ Total["chsh"] = ChshTotal /\ Total["rng"] = FortuneSize
    /\ \A g \in Games : RunsOf[g] \subseteq Runs /\ Total[g] \in Nat \ {0}
    /\ \A r \in Runs : \E g \in Games : r \in RunsOf[g]
    /\ \A g, h \in Games : \A r \in RunsOf[g] \cap RunsOf[h] : g = h
    /\ ChshRuns \subseteq Runs /\ Fortunes \subseteq Runs
<1>1. ChshTotal \in Nat \ {0} /\ FortuneSize \in Nat \ {0} /\ ChshRuns \cap Fortunes = {}
  BY ProgressAssumption, SMT
<1>2. /\ RunsOf["chsh"] = ChshRuns /\ RunsOf["rng"] = Fortunes
      /\ Total["chsh"] = ChshTotal /\ Total["rng"] = FortuneSize
  BY DEF RunsOf, Total
<1> QED
  BY <1>1, <1>2 DEF Games, Runs

\* A run's own setting changes with every second trial.
LEMMA Trials ==
    ASSUME NEW n \in Nat, n < ChshTotal
    PROVE  /\ OwnSetting(n) \in Settings /\ FollowerSetting(n) \in Settings
           /\ (n + 1) % 2 = 1 => OwnSetting(n + 1) = OwnSetting(n)
           /\ ~MovesOwn(n) => n % 2 = 1
<1>1. n \in 0..15
  BY ProgressAssumption, SMT
<1>2. n \div 8 \in 0..1 /\ (n \div 2) % 2 \in 0..1 /\ (n \div 4) % 2 \in 0..1 /\ n % 2 \in 0..1
  BY <1>1, SMT
<1>3. (n + 1) % 2 = 1 => (n + 1) \div 8 = n \div 8 /\ (n + 1) \div 2 = n \div 2
  BY <1>1, SMT
<1> QED
  BY <1>2, <1>3, SMT DEF OwnSetting, FollowerSetting, Settings, MovesOwn

LEMMA InitIInv == Init => IInv
<1> SUFFICES ASSUME Init PROVE IInv
  OBVIOUS
<1>1. TypeOK
  <2>1. progress \in [Games -> Snapshots] /\ Nothing \in Snapshots
    <3>1. progress = [g \in Games |-> progress[g]]
      BY DEF Init, Games
    <3>2. Nothing \in Snapshots /\ \A g \in Games : progress[g] \in Snapshots
      BY DEF Init, Games, Snapshots, Nothing
    <3> QED
      BY <3>1, <3>2
  <2>2. run \in [Runs -> [pc: RunStates, counts: Nat, bad: BOOLEAN]]
        /\ \A r \in Runs : run[r].counts = 0
    BY DEF Init, RunStates
  <2>3. \A g \in Games : \A r \in RunsOf[g] : run[r].counts <= Total[g]
    BY <2>2, GamesAndRuns, SMT
  <2> QED
    BY <2>1, <2>2, <2>3 DEF Init, TypeOK
<1>2. \A r \in Runs : ~UnderWay(r) /\ run[r].pc = "off"
  BY DEF Init, UnderWay
<1>3. \A g \in Games : progress[g].running = FALSE
  BY DEF Init, Games, Nothing
<1> QED
  BY <1>1, <1>2, <1>3, GamesAndRuns
     DEF IInv, OneAtATime, InTheLoop, PlatesStand, SentIsSeen, ProgressIsTheRuns, CountsInPlace,
         NoUpdateLost, Init

-----------------------------------------------------------------------------
(* The streams. *)

\* The types of what belongs to the streams, and what holds of it.
StreamsOK ==
    /\ event \in [Games -> BOOLEAN]
    /\ page \in [Pages -> [pc: {"off", "waiting", "woken", "sending", "sleeping"},
                           shown: Snapshots]]
    /\ unseen \subseteq Pages
    /\ SentIsSeen
    /\ NoUpdateLost

NobodySends == \A p \in Pages \ SlowPages : page[p].pc # "sending"

LEMMA WatchesAGame == \A p \in Pages : Watches(p) \in Games
  BY DEF Watches, Games

LEMMA Announced ==
    ASSUME StreamsOK, NobodySends, NEW g \in Games, Announce(g)
    PROVE  StreamsOK'
<1>1. /\ event' \in [Games -> BOOLEAN] /\ event'[g] = TRUE
      /\ \A h \in Games : h # g => event'[h] = event[h]
  BY DEF StreamsOK, Announce
<1>2. page' \in [Pages -> [pc: {"off", "waiting", "woken", "sending", "sleeping"},
                          shown: Snapshots]]
  BY DEF StreamsOK, Announce
<1>3. \A p \in Pages :
        page'[p].pc = IF Watches(p) = g /\ page[p].pc = "waiting" THEN "woken" ELSE page[p].pc
  BY DEF StreamsOK, Announce
<1>4. unseen' \subseteq Pages /\ \A p \in unseen' : p \in unseen \/ Watches(p) = g
  BY DEF StreamsOK, Announce
<1>5. SentIsSeen'
  BY <1>3 DEF SentIsSeen, NobodySends
<1>6. NoUpdateLost'
  BY <1>1, <1>3, <1>4, WatchesAGame DEF StreamsOK, NoUpdateLost
<1> QED
  BY <1>1, <1>2, <1>4, <1>5, <1>6 DEF StreamsOK

LEMMA Silent == ASSUME StreamsOK, UNCHANGED <<event, page, unseen>> PROVE StreamsOK'
  BY DEF StreamsOK, SentIsSeen, NoUpdateLost

\* The own steps of a stream.
LEMMA StreamStep ==
    ASSUME StreamsOK, progress \in [Games -> Snapshots], NEW p \in Pages,
           PageClears(p) \/ PageWaits(p) \/ PageSends(p) \/ PageWakes(p) \/ PageOpens(p)
              \/ PageCloses(p)
    PROVE  StreamsOK' /\ UNCHANGED <<progress, measuring>>
<1>1. Nothing \in Snapshots /\ Watches(p) \in Games
  BY WatchesAGame DEF Nothing, Snapshots
<1>2. UNCHANGED <<progress, measuring>>
  BY DEF PageClears, PageWaits, PageSends, PageWakes, PageOpens, PageCloses, PageGoes
<1>3. /\ event' \in [Games -> BOOLEAN]
      /\ page' \in [Pages -> [pc: {"off", "waiting", "woken", "sending", "sleeping"},
                              shown: Snapshots]]
      /\ unseen' \subseteq unseen
      /\ \A q \in Pages : q # p => page'[q] = page[q] /\ (q \in unseen' <=> q \in unseen)
  <2>1. event' \in [Games -> BOOLEAN]
    BY <1>1 DEF StreamsOK, PageClears, PageWaits, PageSends, PageWakes, PageOpens, PageCloses
  <2>2. PICK pc \in {"off", "waiting", "woken", "sending", "sleeping"}, shown \in Snapshots :
           page' = [page EXCEPT ![p].pc = pc] \/ page' = [page EXCEPT ![p] = [pc |-> pc, shown |-> shown]]
    BY <1>1 DEF StreamsOK, PageClears, PageWaits, PageSends, PageWakes, PageOpens, PageCloses,
       PageGoes
  <2>3. /\ page' \in [Pages -> [pc: {"off", "waiting", "woken", "sending", "sleeping"},
                                shown: Snapshots]]
        /\ \A q \in Pages : q # p => page'[q] = page[q]
    BY <2>2 DEF StreamsOK
  <2>4. unseen' \in {unseen, unseen \ {p}}
    BY DEF PageClears, PageWaits, PageSends, PageWakes, PageOpens, PageCloses
  <2> QED
    BY <2>1, <2>3, <2>4
<1>4. page'[p].pc = "sending" => p \notin unseen'
  BY DEF StreamsOK, PageClears, PageWaits, PageSends, PageWakes, PageOpens, PageCloses,
     PageGoes
<1>5. CASE PageClears(p)
  <2>1. page[p].pc = "sending" /\ unseen' = unseen /\ event' = [event EXCEPT ![Watches(p)] = FALSE]
    BY <1>5 DEF PageClears
  <2>2. ASSUME NEW q \in Pages \ SlowPages, q \in unseen',
               \A x \in Pages : Watches(x) = Watches(q) => x = q
        PROVE  event'[Watches(q)] \/ page'[q].pc = "woken"
    <3>1. q # p
      BY <2>1, <2>2 DEF StreamsOK, SentIsSeen
    <3>2. Watches(q) # Watches(p)
      BY <2>2, <3>1
    <3> QED
      BY <1>1, <1>3, <2>1, <2>2, <3>1, <3>2, WatchesAGame DEF StreamsOK, NoUpdateLost
  <2> QED
    BY <1>2, <1>3, <1>4, <2>2 DEF StreamsOK, SentIsSeen, NoUpdateLost
<1>6. CASE PageWaits(p) \/ PageSends(p) \/ PageWakes(p) \/ PageOpens(p) \/ PageCloses(p)
  <2>1. event' = event
    BY <1>6 DEF PageWaits, PageSends, PageWakes, PageOpens, PageCloses
  <2>2. p \in unseen' => p \in unseen /\ (event[Watches(p)] \/ page[p].pc # "woken")
    BY <1>3, <1>6 DEF PageWaits, PageSends, PageWakes, PageOpens, PageCloses
  <2> QED
    BY <1>2, <1>3, <1>4, <2>1, <2>2 DEF StreamsOK, SentIsSeen, NoUpdateLost
<1> QED
  BY <1>5, <1>6

-----------------------------------------------------------------------------
(* The runs. *)

RunRecords == [pc: RunStates, counts: Nat, bad: BOOLEAN]

\* The types of what belongs to the runs, and what holds of it.
RunsOK ==
    /\ progress \in [Games -> Snapshots]
    /\ run \in [Runs -> RunRecords]
    /\ \A g \in Games : \A r \in RunsOf[g] : run[r].counts <= Total[g]
    /\ plate \in [own: Settings \cup {Unset}, follower: Settings \cup {Unset}]
    /\ asked \subseteq ChshRuns \X Settings
    /\ serial \subseteq Games
    /\ inPlace \subseteq ChshRuns
    /\ OneAtATime
    /\ InTheLoop
    /\ PlatesStand
    /\ ProgressIsTheRuns
    /\ CountsInPlace

LEMMA TwoHalves == IInv <=> RunsOK /\ StreamsOK
  BY DEF IInv, TypeOK, RunsOK, StreamsOK, RunRecords

LEMMA HalvesKept == ASSUME RunsOK', StreamsOK' PROVE IInv'
  BY DEF IInv, TypeOK, RunsOK, StreamsOK, RunRecords

LEMMA RunsLeft == ASSUME RunsOK, UNCHANGED <<progress, measuring>> PROVE RunsOK'
  BY DEF RunsOK, measuring, OneAtATime, InTheLoop, PlatesStand, ProgressIsTheRuns, CountsInPlace,
     UnderWay

\* A run goes somewhere: nothing else about it changes, and nothing about the others.
LEMMA Goes ==
    ASSUME RunsOK, NEW r \in Runs, NEW pc \in RunStates, Goto(r, pc)
    PROVE  /\ run' \in [Runs -> RunRecords]
           /\ run'[r].pc = pc
           /\ \A s \in Runs : run'[s].counts = run[s].counts
           /\ \A s \in Runs : s # r => run'[s] = run[s]
           /\ \A s \in Runs : s # r => (UnderWay(s)' <=> UnderWay(s))
  BY DEF RunsOK, Goto, RunRecords, UnderWay

LEMMA BeginsKeeps ==
    ASSUME RunsOK, NEW g \in Games, NEW r \in RunsOf[g],
           \/ g = "chsh" /\ Begins(r, g, "moving")
           \/ g = "rng" /\ Begins(r, g, "counting")
    PROVE  RunsOK'
<1>1. r \in Runs /\ Total[g] \in Nat
  BY GamesAndRuns
<1>2. /\ run' \in [Runs -> RunRecords] /\ UnderWay(r)' /\ run[r].pc = "off"
      /\ run'[r].pc = IF g = "chsh" THEN "moving" ELSE "counting"
      /\ \A s \in Runs : run'[s].counts = run[s].counts
      /\ \A s \in Runs : s # r => run'[s] = run[s] /\ (UnderWay(s)' <=> UnderWay(s))
  BY <1>1, Goes DEF Begins, RunStates, UnderWay
<1>3. run[r].counts = 0 /\ ~UnderWay(r)
  BY <1>1, <1>2 DEF RunsOK, InTheLoop, UnderWay
<1>4. /\ progress' = [progress EXCEPT ![g] = [running |-> TRUE, current |-> 0, total |-> Total[g]]]
      /\ progress' \in [Games -> Snapshots]
      /\ UNCHANGED <<plate, asked, inPlace>>
      /\ serial' \subseteq serial /\ serial \subseteq Games
      /\ g \in serial' => /\ \A s \in RunsOf[g] : ~UnderWay(s)
                          /\ \A s \in RunsOf[g] : asked \cap ({s} \X Settings) = {}
  <2>1. [running |-> TRUE, current |-> 0, total |-> Total[g]] \in Snapshots
    BY <1>1 DEF Snapshots
  <2> QED
    BY <2>1 DEF Begins, RunsOK
<1>5. OneAtATime'
  BY <1>2, <1>4, GamesAndRuns DEF RunsOK, OneAtATime
<1>6. InTheLoop'
  <2>1. g = "rng" => r \notin ChshRuns
    BY ProgressAssumption, GamesAndRuns
  <2> QED
    BY <1>1, <1>2, <2>1, GamesAndRuns DEF RunsOK, InTheLoop
<1>7. PlatesStand'
  <2>1. CASE g = "chsh"
    <3> SUFFICES ASSUME "chsh" \in serial', NEW s \in ChshRuns, UnderWay(s)'
                 PROVE  s = r /\ asked' = {} /\ run'[s].pc = "moving" /\ run'[s].counts % 2 # 1
      BY DEF PlatesStand
    <3>1. s = r
      BY <1>2, <1>4, <2>1, GamesAndRuns
    <3>2. asked = {}
      BY <1>4, <2>1, GamesAndRuns DEF RunsOK
    <3>3. 0 % 2 # 1
      BY SMT
    <3> QED
      BY <1>2, <1>3, <1>4, <2>1, <3>1, <3>2, <3>3, GamesAndRuns
  <2>2. CASE g = "rng"
    <3>1. r \notin ChshRuns
      BY <2>2, ProgressAssumption, GamesAndRuns
    <3>2. \A s \in ChshRuns : s \in Runs /\ run'[s] = run[s] /\ (UnderWay(s)' <=> UnderWay(s))
      BY <1>2, <3>1, GamesAndRuns
    <3> QED
      BY <1>4, <3>2 DEF RunsOK, PlatesStand
  <2> QED
    BY <2>1, <2>2
<1>8. ProgressIsTheRuns'
  <2>1. \A h \in Games : h # g =>
          /\ progress'[h] = progress[h]
          /\ \A s \in RunsOf[h] : s \in Runs /\ s # r
    BY <1>1, <1>4, GamesAndRuns DEF RunsOK
  <2>2. \A h \in Games : h # g =>
          /\ h \in serial' => \A s \in RunsOf[h] : UnderWay(s)' =>
                progress'[h] = [running |-> TRUE, current |-> run'[s].counts, total |-> Total[h]]
          /\ progress'[h].running => \E s \in RunsOf[h] : UnderWay(s)' \/ run'[s].pc = "failed"
    BY <1>2, <1>4, <2>1 DEF RunsOK, ProgressIsTheRuns
  <2>3. g \in serial' => \A s \in RunsOf[g] : UnderWay(s)' => s = r
    BY <1>2, <1>4, GamesAndRuns
  <2>4. progress'[g] = [running |-> TRUE, current |-> run'[r].counts, total |-> Total[g]]
    BY <1>1, <1>2, <1>3, <1>4 DEF RunsOK
  <2> QED
    BY <1>2, <2>2, <2>3, <2>4 DEF ProgressIsTheRuns
<1>9. CountsInPlace'
  BY <1>4 DEF RunsOK, CountsInPlace
<1>10. \A h \in Games : \A s \in RunsOf[h] : run'[s].counts <= Total[h]
  BY <1>2, GamesAndRuns DEF RunsOK
<1>11. serial' \subseteq Games
  BY <1>4
<1> QED
  BY <1>2, <1>4, <1>5, <1>6, <1>7, <1>8, <1>9, <1>10, <1>11 DEF RunsOK

LEMMA ASnapshot ==
    ASSUME NEW snapshot \in Snapshots
    PROVE  snapshot = [running |-> snapshot.running, current |-> snapshot.current,
                       total |-> snapshot.total]
  BY DEF Snapshots

\* A run that is under way goes on, counts, ends or fails.
LEMMA RunGoesOn ==
    ASSUME RunsOK, NEW g \in Games, NEW r \in RunsOf[g], UnderWay(r),
           run' \in [Runs -> RunRecords],
           \A s \in Runs : s # r => run'[s] = run[s],
           \/ /\ progress' = progress /\ run'[r].counts = run[r].counts
              /\ UnderWay(r)' \/ run'[r].pc = "failed"
           \/ progress' = Counted(g) /\ run'[r].counts = run[r].counts + 1 /\ UnderWay(r)'
              /\ run[r].counts < Total[g]
           \/ progress' = TakenDown(g) /\ run'[r].counts = run[r].counts /\ ~UnderWay(r)',
           run'[r].pc # "off",
           serial' = serial
    PROVE  /\ progress' \in [Games -> Snapshots]
           /\ \A h \in Games : \A s \in RunsOf[h] : run'[s].counts <= Total[h]
           /\ OneAtATime'
           /\ ProgressIsTheRuns'
           /\ \A s \in Runs : s # r => (UnderWay(s)' <=> UnderWay(s))
           /\ \A s \in Runs : run'[s].pc = "off" => run'[s].counts = 0
<1>1. /\ r \in Runs /\ progress \in [Games -> Snapshots] /\ progress[g] \in Snapshots
      /\ run[r].counts \in Nat /\ Total[g] \in Nat
  BY GamesAndRuns DEF RunsOK, RunRecords
<1>2. \A s \in Runs : s # r => (UnderWay(s)' <=> UnderWay(s))
  BY DEF UnderWay
<1>3. \A h \in Games : \A s \in RunsOf[h] : s \in Runs /\ (s = r => h = g)
  BY GamesAndRuns
<1>4. progress' \in [Games -> Snapshots] /\ \A h \in Games : h # g => progress'[h] = progress[h]
  <2>1. CASE progress' = Counted(g)
    BY <1>1, <2>1 DEF Counted, Snapshots
  <2>2. CASE progress' = TakenDown(g)
    BY <1>1, <2>2 DEF TakenDown, Snapshots
  <2> QED
    BY <1>1, <2>1, <2>2
<1>5. \A h \in Games : \A s \in RunsOf[h] : run'[s].counts <= Total[h]
  <2>1. run'[r].counts <= Total[g]
    BY <1>1, SMT DEF RunsOK
  <2> QED
    BY <1>3, <2>1 DEF RunsOK
<1>6. OneAtATime'
  BY <1>2, <1>3 DEF RunsOK, OneAtATime
<1>7. \A h \in Games : h # g =>
        /\ h \in serial' => \A s \in RunsOf[h] : UnderWay(s)' =>
              progress'[h] = [running |-> TRUE, current |-> run'[s].counts, total |-> Total[h]]
        /\ progress'[h].running => \E s \in RunsOf[h] : UnderWay(s)' \/ run'[s].pc = "failed"
  BY <1>2, <1>3, <1>4 DEF RunsOK, ProgressIsTheRuns
<1>8. g \in serial => \A s \in RunsOf[g] : UnderWay(s)' => s = r
  BY <1>2, <1>3 DEF RunsOK, OneAtATime
<1>9. g \in serial =>
        progress[g] = [running |-> TRUE, current |-> run[r].counts, total |-> Total[g]]
  BY DEF RunsOK, ProgressIsTheRuns
<1>10. /\ g \in serial /\ UnderWay(r)' =>
            progress'[g] = [running |-> TRUE, current |-> run'[r].counts, total |-> Total[g]]
       /\ progress'[g].running => UnderWay(r)' \/ run'[r].pc = "failed"
  <2>1. CASE progress' = progress /\ run'[r].counts = run[r].counts
               /\ (UnderWay(r)' \/ run'[r].pc = "failed")
    BY <1>9, <2>1
  <2>2. CASE progress' = Counted(g) /\ run'[r].counts = run[r].counts + 1 /\ UnderWay(r)'
    <3>1. progress'[g].running = progress[g].running /\ progress'[g].total = progress[g].total
          /\ progress'[g].current = progress[g].current + 1
      BY <1>1, <2>2 DEF Counted, Snapshots
    <3>2. g \in serial =>
            progress'[g] = [running |-> TRUE, current |-> run[r].counts + 1, total |-> Total[g]]
      <4>1. progress'[g] = [running |-> progress'[g].running, current |-> progress'[g].current,
                            total |-> progress'[g].total]
        BY <1>4, ASnapshot
      <4>2. g \in serial => /\ progress'[g].running = TRUE /\ progress'[g].total = Total[g]
                           /\ progress'[g].current = run[r].counts + 1
        BY <1>9, <3>1
      <4> QED
        BY <4>1, <4>2, Zenon
    <3> QED
      BY <2>2, <3>2
  <2>3. CASE progress' = TakenDown(g) /\ ~UnderWay(r)'
    BY <1>1, <2>3 DEF TakenDown, Snapshots
  <2> QED
    BY <2>1, <2>2, <2>3
<1>11. ProgressIsTheRuns'
  BY <1>7, <1>8, <1>10 DEF ProgressIsTheRuns
<1>12. \A s \in Runs : run'[s].pc = "off" => run'[s].counts = 0
  BY DEF RunsOK, InTheLoop
<1> QED
  BY <1>2, <1>4, <1>5, <1>6, <1>11, <1>12

\* The steps of a fortune leave the plates and the requests alone.
LEMMA FortuneKeeps ==
    ASSUME RunsOK, NEW r \in Fortunes, ParityFetched(r) \/ FortuneEnds(r) \/ FortuneFails(r)
    PROVE  RunsOK'
<1>1. r \in RunsOf["rng"] /\ r \in Runs /\ r \notin ChshRuns /\ "rng" \in Games
      /\ Total["rng"] = FortuneSize
  BY ProgressAssumption, GamesAndRuns DEF Games
<1>2. UnderWay(r) /\ UNCHANGED <<plate, asked, serial, inPlace>>
  BY DEF UnderWay, ParityFetched, FortuneEnds, FortuneFails
<1>3. run[r].counts \in Nat /\ run[r].counts <= Total["rng"] /\ run \in [Runs -> RunRecords]
      /\ run[r].bad \in BOOLEAN
  BY <1>1, GamesAndRuns DEF RunsOK, RunRecords
<1>4. /\ run' \in [Runs -> RunRecords]
      /\ \A s \in Runs : s # r => run'[s] = run[s]
      /\ run'[r].pc # "off"
      /\ \/ /\ progress' = progress /\ run'[r].counts = run[r].counts
            /\ UnderWay(r)' \/ run'[r].pc = "failed"
         \/ progress' = Counted("rng") /\ run'[r].counts = run[r].counts + 1 /\ UnderWay(r)'
            /\ run[r].counts < Total["rng"]
         \/ progress' = TakenDown("rng") /\ run'[r].counts = run[r].counts /\ ~UnderWay(r)'
  <2>1. CASE ParityFetched(r)
    <3>1. PICK bad \in BOOLEAN :
             run' = [run EXCEPT ![r] = [pc |-> "counting", counts |-> run[r].counts + 1,
                                        bad |-> bad]]
      BY <1>3, <2>1 DEF ParityFetched, Counts
    <3>2. [pc |-> "counting", counts |-> run[r].counts + 1, bad |-> bad] \in RunRecords
      BY <1>3 DEF RunRecords, RunStates
    <3> QED
      BY <1>1, <1>3, <2>1, <3>1, <3>2 DEF ParityFetched, Counts, UnderWay
  <2>2. CASE FortuneEnds(r)
    BY <1>1, <2>2, Goes DEF FortuneEnds, Ends, RunStates, UnderWay
  <2>3. CASE FortuneFails(r)
    BY <1>1, <2>3, Goes DEF FortuneFails, Unannounced, RunStates
  <2> QED
    BY <2>1, <2>2, <2>3
<1>5. /\ progress' \in [Games -> Snapshots]
      /\ \A h \in Games : \A s \in RunsOf[h] : run'[s].counts <= Total[h]
      /\ OneAtATime' /\ ProgressIsTheRuns'
      /\ \A s \in Runs : s # r => (UnderWay(s)' <=> UnderWay(s))
      /\ \A s \in Runs : run'[s].pc = "off" => run'[s].counts = 0
  BY <1>1, <1>2, <1>4, RunGoesOn
<1>6. \A s \in ChshRuns : s \in Runs /\ run'[s] = run[s] /\ (UnderWay(s)' <=> UnderWay(s))
  BY <1>1, <1>4, <1>5, GamesAndRuns
<1>7. InTheLoop' /\ PlatesStand' /\ CountsInPlace'
  BY <1>2, <1>5, <1>6 DEF RunsOK, InTheLoop, PlatesStand, CountsInPlace
<1> QED
  BY <1>2, <1>4, <1>5, <1>7 DEF RunsOK

\* A step of a chsh run that is under way, but for what it does to the plates.
LEMMA ChshGoesOn ==
    ASSUME RunsOK, NEW r \in ChshRuns,
           FollowerAsked(r) \/ ChshCounts(r) \/ ChshEnds(r) \/ ChshFails(r)
    PROVE  /\ r \in Runs /\ UnderWay(r) /\ run[r].counts \in Nat
           /\ run' \in [Runs -> RunRecords]
           /\ \A s \in Runs : s # r => run'[s] = run[s] /\ (UnderWay(s)' <=> UnderWay(s))
           /\ progress' \in [Games -> Snapshots]
           /\ \A h \in Games : \A s \in RunsOf[h] : run'[s].counts <= Total[h]
           /\ OneAtATime' /\ ProgressIsTheRuns'
           /\ \A s \in Runs : run'[s].pc = "off" => run'[s].counts = 0
           /\ run'[r].counts = IF ChshCounts(r) THEN run[r].counts + 1 ELSE run[r].counts
           /\ run'[r].pc = IF FollowerAsked(r) THEN "asking" ELSE
                           IF ChshCounts(r) THEN "moving" ELSE
                           IF ChshEnds(r) THEN "finished" ELSE "failed"
<1>1. r \in RunsOf["chsh"] /\ r \in Runs /\ "chsh" \in Games /\ Total["chsh"] = ChshTotal
  BY GamesAndRuns DEF Games
<1>2. UnderWay(r) /\ serial' = serial
  BY DEF UnderWay, FollowerAsked, ChshCounts, ChshEnds, ChshFails
<1>3. run[r].counts \in Nat /\ run \in [Runs -> RunRecords]
  BY <1>1 DEF RunsOK, RunRecords
<1>4. /\ run' \in [Runs -> RunRecords]
      /\ \A s \in Runs : s # r => run'[s] = run[s]
      /\ \/ /\ progress' = progress /\ run'[r].counts = run[r].counts
            /\ UnderWay(r)' \/ run'[r].pc = "failed"
         \/ progress' = Counted("chsh") /\ run'[r].counts = run[r].counts + 1 /\ UnderWay(r)'
            /\ run[r].counts < Total["chsh"]
         \/ progress' = TakenDown("chsh") /\ run'[r].counts = run[r].counts /\ ~UnderWay(r)'
      /\ run'[r].counts = IF ChshCounts(r) THEN run[r].counts + 1 ELSE run[r].counts
      /\ run'[r].pc = IF FollowerAsked(r) THEN "asking" ELSE
                      IF ChshCounts(r) THEN "moving" ELSE
                      IF ChshEnds(r) THEN "finished" ELSE "failed"
  <2>1. CASE FollowerAsked(r)
    <3>1. ~ChshCounts(r) /\ Goto(r, "asking") /\ progress' = progress
      BY <2>1 DEF FollowerAsked, ChshCounts, Unannounced
    <3> QED
      BY <1>1, <2>1, <3>1, Goes DEF RunStates, UnderWay
  <2>2. CASE ChshCounts(r)
    <3>1. run' = [run EXCEPT ![r] = [pc |-> "moving", counts |-> run[r].counts + 1,
                                     bad |-> FALSE]]
          /\ progress' = Counted("chsh") /\ run[r].pc = "counting"
      BY <1>3, <2>2 DEF ChshCounts, Counts
    <3>2. [pc |-> "moving", counts |-> run[r].counts + 1, bad |-> FALSE] \in RunRecords
      BY <1>3 DEF RunRecords, RunStates
    <3>3. run[r].counts < Total["chsh"] /\ ~FollowerAsked(r)
      BY <1>1, <3>1 DEF RunsOK, InTheLoop, FollowerAsked
    <3> QED
      BY <1>1, <1>3, <2>2, <3>1, <3>2, <3>3 DEF UnderWay
  <2>3. CASE ChshEnds(r)
    <3>1. ~ChshCounts(r) /\ ~FollowerAsked(r) /\ Goto(r, "finished")
          /\ progress' = TakenDown("chsh")
      BY <1>1, <1>3, <2>3, SMT DEF ChshEnds, ChshCounts, FollowerAsked, TrialsLeft, Ends
    <3> QED
      BY <1>1, <2>3, <3>1, Goes DEF RunStates, UnderWay
  <2>4. CASE ChshFails(r)
    <3>1. Goto(r, "failed") /\ progress' = progress
      BY <2>4 DEF ChshFails, Unannounced
    <3>2. run' \in [Runs -> RunRecords] /\ run'[r].pc = "failed"
          /\ run'[r].counts = run[r].counts /\ \A s \in Runs : s # r => run'[s] = run[s]
      BY <1>1, <3>1, Goes DEF RunStates
    <3>3. ~FollowerAsked(r) /\ ~ChshCounts(r) /\ ~ChshEnds(r)
      <4>1. FollowerAsked(r) => run'[r].pc = "asking"
        BY <1>1, Goes DEF FollowerAsked, RunStates
      <4>2. ChshCounts(r) => run'[r].pc = "moving"
        BY <1>1, <1>3 DEF ChshCounts, Counts
      <4>3. ChshEnds(r) => run'[r].pc = "finished"
        BY <1>1, Goes DEF ChshEnds, Ends, RunStates
      <4> QED
        BY <3>2, <4>1, <4>2, <4>3
    <3> QED
      BY <3>1, <3>2, <3>3
  <2> QED
    BY <2>1, <2>2, <2>3, <2>4
<1>5. run'[r].pc # "off"
  BY <1>4
<1> QED
  BY <1>1, <1>2, <1>3, <1>4, <1>5, RunGoesOn

\* While they come one after the other, a run that is under way is the one that steps.
LEMMA TheOnlyOne ==
    ASSUME RunsOK, NEW r \in ChshRuns, UnderWay(r), "chsh" \in serial,
           \A s \in Runs : s # r => (UnderWay(s)' <=> UnderWay(s))
    PROVE  \A s \in ChshRuns : UnderWay(s) \/ UnderWay(s)' => s = r
  BY GamesAndRuns DEF RunsOK, OneAtATime, Games

LEMMA FollowerAskedKeeps ==
    ASSUME RunsOK, NEW r \in ChshRuns, FollowerAsked(r)
    PROVE  RunsOK'
<1>1. /\ run[r].pc = "moving" /\ run'[r].pc = "asking" /\ run'[r].counts = run[r].counts
      /\ run[r].counts < ChshTotal /\ ~ChshCounts(r) /\ UNCHANGED <<serial, inPlace>>
      /\ asked' = asked \cup {<<r, FollowerSetting(run[r].counts)>>}
  BY ChshGoesOn DEF FollowerAsked, ChshCounts, TrialsLeft
<1>2. PICK n \in Nat : n = run[r].counts
  BY ChshGoesOn
<1>3. OwnSetting(n) \in Settings /\ FollowerSetting(n) \in Settings
      /\ (~MovesOwn(n) => n % 2 = 1)
  BY <1>1, <1>2, Trials
<1>4. plate' \in [own: Settings \cup {Unset}, follower: Settings \cup {Unset}]
      /\ asked' \subseteq ChshRuns \X Settings
      /\ plate'.own = IF MovesOwn(n) THEN OwnSetting(n) ELSE plate.own
  <2>1. CASE MovesOwn(n)
    BY <1>1, <1>2, <1>3, <2>1 DEF RunsOK, FollowerAsked
  <2>2. CASE ~MovesOwn(n)
    BY <1>1, <1>2, <1>3, <2>2 DEF RunsOK, FollowerAsked
  <2> QED
    BY <2>1, <2>2
<1>5. PlatesStand'
  <2> SUFFICES ASSUME "chsh" \in serial', NEW s \in ChshRuns, UnderWay(s)'
               PROVE  /\ s = r /\ plate'.own = OwnSetting(run'[s].counts)
                      /\ \A a \in asked' : a = <<s, FollowerSetting(run'[s].counts)>>
    BY <1>1 DEF PlatesStand
  <2>1. s = r
    BY <1>1, ChshGoesOn, TheOnlyOne
  <2>2. asked = {} /\ (n % 2 = 1 => plate.own = OwnSetting(n))
    BY <1>1, <1>2, ChshGoesOn DEF RunsOK, PlatesStand
  <2> QED
    BY <1>1, <1>2, <1>3, <1>4, <2>1, <2>2
<1>6. InTheLoop'
  BY <1>1, ChshGoesOn, GamesAndRuns DEF RunsOK, InTheLoop
<1> QED
  BY <1>1, <1>4, <1>5, <1>6, ChshGoesOn DEF RunsOK, CountsInPlace

LEMMA APlate ==
    ASSUME NEW p \in [own: Settings \cup {Unset}, follower: Settings \cup {Unset}]
    PROVE  p = [own |-> p.own, follower |-> p.follower]
  OBVIOUS

LEMMA ChshCountsKeeps ==
    ASSUME RunsOK, NEW r \in ChshRuns, ChshCounts(r)
    PROVE  RunsOK'
<1>1. /\ run[r].pc = "counting" /\ run'[r].pc = "moving" /\ run'[r].counts = run[r].counts + 1
      /\ UNCHANGED <<serial, asked, plate>> /\ inPlace' \in {inPlace, inPlace \ {r}}
  BY ChshGoesOn DEF FollowerAsked, ChshCounts
<1>2. PICK n \in Nat : n = run[r].counts /\ n < ChshTotal
  BY <1>1, ChshGoesOn DEF RunsOK, InTheLoop
<1>3. "chsh" \in serial =>
        plate = [own |-> OwnSetting(n), follower |-> FollowerSetting(n)] /\ asked = {}
  <2> SUFFICES ASSUME "chsh" \in serial
               PROVE  plate = [own |-> OwnSetting(n), follower |-> FollowerSetting(n)]
                      /\ asked = {}
    OBVIOUS
  <2>1. plate.own = OwnSetting(n) /\ plate.follower = FollowerSetting(n) /\ asked = {}
    BY <1>1, <1>2, ChshGoesOn DEF RunsOK, PlatesStand
  <2>2. plate = [own |-> plate.own, follower |-> plate.follower]
    BY APlate DEF RunsOK
  <2> QED
    BY <2>1, <2>2, Zenon
<1>4. CountsInPlace'
  BY <1>1, <1>2, <1>3 DEF RunsOK, CountsInPlace, ChshCounts
<1>5. PlatesStand'
  <2> SUFFICES ASSUME "chsh" \in serial', NEW s \in ChshRuns, UnderWay(s)'
               PROVE  /\ s = r /\ asked' = {}
                      /\ run'[s].counts % 2 = 1 => plate'.own = OwnSetting(run'[s].counts)
    BY <1>1 DEF PlatesStand
  <2>1. s = r
    BY <1>1, ChshGoesOn, TheOnlyOne
  <2>2. (n + 1) % 2 = 1 => OwnSetting(n + 1) = OwnSetting(n)
    BY <1>2, Trials
  <2>3. plate.own = OwnSetting(n)
    BY <1>1, <1>2, ChshGoesOn DEF RunsOK, PlatesStand
  <2> QED
    BY <1>1, <1>2, <1>3, <2>1, <2>2, <2>3
<1>6. InTheLoop'
  BY <1>1, ChshGoesOn, GamesAndRuns DEF RunsOK, InTheLoop
<1> QED
  BY <1>1, <1>4, <1>5, <1>6, ChshGoesOn DEF RunsOK

LEMMA ChshStopsKeeps ==
    ASSUME RunsOK, NEW r \in ChshRuns, ChshEnds(r) \/ ChshFails(r)
    PROVE  RunsOK'
<1>1. /\ run'[r].pc \in {"finished", "failed"}
      /\ UNCHANGED <<serial, inPlace, plate>> /\ asked' \subseteq asked
  <2>1. \E pc \in {"finished", "failed"} : Goto(r, pc)
    BY DEF ChshEnds, ChshFails, Ends
  <2>2. run'[r].pc \in {"finished", "failed"}
    BY <2>1, Goes, GamesAndRuns DEF RunStates
  <2> QED
    BY <2>2 DEF ChshEnds, ChshFails
<1>2. ~UnderWay(r)'
  BY <1>1 DEF UnderWay
<1>3. PlatesStand'
  <2>1. \A s \in ChshRuns : "chsh" \in serial => ~UnderWay(s)'
    BY <1>2, ChshGoesOn, TheOnlyOne
  <2> QED
    BY <1>1, <2>1 DEF PlatesStand
<1>4. InTheLoop'
  BY <1>1, ChshGoesOn, GamesAndRuns DEF RunsOK, InTheLoop
<1> QED
  BY <1>1, <1>3, <1>4, ChshGoesOn DEF RunsOK, CountsInPlace

LEMMA FollowerMovesKeeps ==
    ASSUME RunsOK, NEW r \in ChshRuns, NEW setting \in Settings, FollowerMoves(r, setting)
    PROVE  RunsOK'
<1>1. /\ asked' \subseteq asked /\ asked' = asked \ {<<r, setting>>} /\ <<r, setting>> \in asked
      /\ plate' \in [own: Settings \cup {Unset}, follower: Settings \cup {Unset}]
      /\ plate'.own = plate.own /\ plate'.follower = setting
      /\ UNCHANGED <<serial, inPlace, progress>>
      /\ r \in Runs /\ r \in RunsOf["chsh"] /\ "chsh" \in Games
  BY GamesAndRuns DEF RunsOK, FollowerMoves, Unannounced, Games
<1>2. CASE run[r].pc # "asking"
  <2>1. run' = run
    BY <1>2 DEF FollowerMoves
  <2>2. \A s \in Runs : UnderWay(s)' <=> UnderWay(s)
    BY <2>1 DEF UnderWay
  <2>3. \A s \in ChshRuns : "chsh" \in serial => ~UnderWay(s)
    BY <1>1, <1>2 DEF RunsOK, PlatesStand
  <2>4. PlatesStand'
    BY <1>1, <2>2, <2>3, GamesAndRuns DEF PlatesStand
  <2>5. OneAtATime' /\ ProgressIsTheRuns' /\ InTheLoop' /\ CountsInPlace'
    BY <1>1, <2>1 DEF RunsOK, OneAtATime, ProgressIsTheRuns, InTheLoop, CountsInPlace, UnderWay
  <2> QED
    BY <1>1, <2>1, <2>4, <2>5 DEF RunsOK
<1>3. CASE run[r].pc = "asking"
  <2>1. Goto(r, "counting")
    BY <1>3 DEF FollowerMoves, Goto
  <2>2. /\ run' \in [Runs -> RunRecords] /\ run'[r].pc = "counting"
        /\ run'[r].counts = run[r].counts
        /\ \A s \in Runs : s # r => run'[s] = run[s]
    BY <1>1, <2>1, Goes DEF RunStates
  <2>3. UnderWay(r) /\ UnderWay(r)' /\ run'[r].pc # "off"
    BY <1>3, <2>2 DEF UnderWay
  <2>4. /\ \A h \in Games : \A s \in RunsOf[h] : run'[s].counts <= Total[h]
        /\ OneAtATime' /\ ProgressIsTheRuns'
        /\ \A s \in Runs : s # r => (UnderWay(s)' <=> UnderWay(s))
        /\ \A s \in Runs : run'[s].pc = "off" => run'[s].counts = 0
    BY <1>1, <2>2, <2>3, RunGoesOn
  <2>5. PlatesStand'
    <3> SUFFICES ASSUME "chsh" \in serial', NEW s \in ChshRuns, UnderWay(s)'
                 PROVE  /\ s = r /\ asked' = {} /\ plate'.own = OwnSetting(run'[s].counts)
                        /\ plate'.follower = FollowerSetting(run'[s].counts)
      BY DEF PlatesStand
    <3>1. s = r
      BY <1>1, <2>3, <2>4, TheOnlyOne
    <3>2. \A a \in asked : a = <<r, FollowerSetting(run[r].counts)>>
      BY <1>1, <2>3 DEF RunsOK, PlatesStand
    <3>3. plate.own = OwnSetting(run[r].counts)
      BY <1>1, <1>3, <2>3 DEF RunsOK, PlatesStand
    <3>4. setting = FollowerSetting(run[r].counts) /\ asked' = {}
      BY <1>1, <3>2
    <3> QED
      BY <1>1, <2>2, <3>1, <3>3, <3>4
  <2>6. InTheLoop'
    BY <1>3, <2>2, <2>4, GamesAndRuns DEF RunsOK, InTheLoop
  <2>7. CountsInPlace'
    BY <1>1 DEF RunsOK, CountsInPlace
  <2> QED
    BY <1>1, <2>2, <2>4, <2>5, <2>6, <2>7 DEF RunsOK
<1> QED
  BY <1>2, <1>3

\* What a run does to the streams.
LEMMA RunAnnounces ==
    ASSUME StreamsOK, NobodySends,
           (\E r \in ChshRuns : ChshStep(r)) \/ (\E r \in Fortunes : FortuneStep(r))
    PROVE  StreamsOK'
<1>1. (\E g \in Games : Announce(g)) \/ UNCHANGED <<event, page, unseen>>
  BY DEF ChshStep, ChshStarts, FollowerAsked, FollowerMoves, ChshCounts, ChshEnds, ChshFails,
     FortuneStep, FortuneStarts, ParityFetched, FortuneEnds, FortuneFails, Begins, Counts, Ends,
     Unannounced, Games
<1> QED
  BY <1>1, Announced, Silent

LEMMA NextIInv == ASSUME IInv, [Next]_vars PROVE IInv'
<1>1. RunsOK /\ StreamsOK
  BY TwoHalves
<1>2. CASE \E p \in Pages : PageClears(p) \/ PageStep(p) \/ PageOpens(p) \/ PageCloses(p)
  <2>1. StreamsOK' /\ UNCHANGED <<progress, measuring>>
    BY <1>1, <1>2, StreamStep DEF PageStep, RunsOK
  <2> QED
    BY <1>1, <2>1, RunsLeft, HalvesKept
<1>3. CASE NobodySends /\ \E r \in ChshRuns : ChshStep(r)
  <2>1. StreamsOK'
    BY <1>1, <1>3, RunAnnounces
  <2>2. ASSUME NEW r \in ChshRuns, ChshStarts(r) PROVE RunsOK'
    <3>1. "chsh" \in Games /\ r \in RunsOf["chsh"] /\ Begins(r, "chsh", "moving")
      BY <2>2, GamesAndRuns DEF ChshStarts, Games
    <3> QED
      BY <1>1, <3>1, BeginsKeeps
  <2>3. RunsOK'
    BY <1>1, <1>3, <2>2, FollowerAskedKeeps, FollowerMovesKeeps, ChshCountsKeeps, ChshStopsKeeps
       DEF ChshStep
  <2> QED
    BY <2>1, <2>3, HalvesKept
<1>4. CASE NobodySends /\ \E r \in Fortunes : FortuneStep(r)
  <2>1. StreamsOK'
    BY <1>1, <1>4, RunAnnounces
  <2>2. ASSUME NEW r \in Fortunes, FortuneStarts(r) PROVE RunsOK'
    <3>1. "rng" \in Games /\ r \in RunsOf["rng"] /\ Begins(r, "rng", "counting")
      BY <2>2, GamesAndRuns DEF FortuneStarts, Games
    <3> QED
      BY <1>1, <3>1, BeginsKeeps
  <2>3. RunsOK'
    BY <1>1, <1>4, <2>2, FortuneKeeps DEF FortuneStep
  <2> QED
    BY <2>1, <2>3, HalvesKept
<1>5. CASE UNCHANGED vars
  <2>1. UNCHANGED <<progress, measuring>> /\ UNCHANGED <<event, page, unseen>>
    BY <1>5 DEF vars, measuring
  <2> QED
    BY <1>1, <2>1, RunsLeft, Silent, HalvesKept
<1> QED
  BY <1>2, <1>3, <1>4, <1>5 DEF Next, NobodySends

\* Whatever runs fail, streams close and requests to the follower arrive late.
THEOREM InductiveInvariant == Spec => []IInv
  BY InitIInv, NextIInv, PTL DEF Spec

\* The types of the records, the runs and the streams.
THEOREM TypesHold == Spec => []TypeOK
<1>1. IInv => TypeOK
  BY DEF IInv
<1> QED
  BY <1>1, InductiveInvariant, PTL

\* As long as the runs of a game come one after the other, its record is that of the
\* one under way.
THEOREM RecordIsTheRuns == Spec => []ProgressIsTheRuns
<1>1. IInv => ProgressIsTheRuns
  BY DEF IInv
<1> QED
  BY <1>1, InductiveInvariant, PTL

\* No coincidence is counted with a plate of either node in another setting.
THEOREM CountedInPlace == Spec => []CountsInPlace
<1>1. IInv => CountsInPlace
  BY DEF IInv
<1> QED
  BY <1>1, InductiveInvariant, PTL

\* The only stream of a game misses no update.
THEOREM UpdatesReach == Spec => []NoUpdateLost
<1>1. IInv => NoUpdateLost
  BY DEF IInv
<1> QED
  BY <1>1, InductiveInvariant, PTL

=============================================================================
