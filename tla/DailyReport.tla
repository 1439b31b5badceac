----------------------------- MODULE DailyReport -----------------------------
(***************************************************************************)
(* run_daily_report: it arms a watchdog, checks that the API answers, asks *)
(* it for the hardware's health and the available games, plays them, and   *)
(* posts a digest to Slack.  Every step is an HTTP request that may fail,  *)
(* time out or be answered with something else, and the alarm may go off   *)
(* at any time.  One run follows the other: the overall timeout is half an *)
(* hour, the shortest schedule an hour.                                    *)
(***************************************************************************)
EXTENDS HealthProbe

VARIABLES
    run,  \* where the run is, its hardware result, the games it has to play, whether
          \* a game has failed, its digest's text, the watchdog, and the exit code
    told, \* history: the messages that Slack has got of this run
    lost, \* history: whether a post of this run has failed, or a plain one was rejected
    fine  \* history: whether all hardware was there when this run's probe came to it

Games == {"chsh", "qf"}

\* The games whose availability the node tells.
Offered == Games \cup {"ssm"}

reportVars == <<run, told, lost, fine, healthVars>>

Ready == [pc |-> "off", hardware |-> "none", games |-> {}, failed |-> FALSE,
          armed |-> FALSE, exit |-> "none"]

ReportTypeOK ==
    /\ run \in [pc: {"off", "checking", "down", "hardware", "availability", "games", "posting",
                     "fallback", "finally", "ended"},
                hardware: {"none", "failed", "ok", "issues"},
                games: SUBSET Games, failed: BOOLEAN, armed: BOOLEAN,
                exit: {"none", "0", "1", "raised", "killed", "unset"}]
    /\ told \subseteq {"down", "digest", "rejected", "watchdog"}
    /\ lost \subseteq {"failed", "rejected"}
    /\ fine \in BOOLEAN
    /\ HealthTypeOK

ReportInit ==
    /\ run = Ready
    /\ told = {}
    /\ lost = {}
    /\ fine = FALSE
    /\ HealthInit

-----------------------------------------------------------------------------
\* Mutant: the watchdog is armed once the API has answered.
StartedUnarmed == [Ready EXCEPT !.pc = "checking"]

Started == [Ready EXCEPT !.pc = "checking", !.armed = TRUE]

\* Without a [daily_report] section there is nobody to tell.
WithoutSection == [Ready EXCEPT !.pc = "ended", !.exit = "unset"]

RunStarts ==
    /\ run.pc \in {"off", "ended"}
    /\ run' \in {Started, WithoutSection}
    /\ told' = {}
    /\ lost' = {}
    /\ fine' = FALSE
    /\ UNCHANGED healthVars

Steps(pc, next) == run.pc = pc /\ run' = next

Untold == UNCHANGED <<told, lost, fine>>

\* An exception that nothing catches; the finally clause disarms the watchdog.
Raised == [run EXCEPT !.pc = "finally", !.exit = "raised"]

Returned(code) == [run EXCEPT !.pc = "finally", !.exit = code]

\* _post_plain_slack looks at no answer: a message that Slack rejects is as good as sent.
PlainAnswered(message) ==
    \/ told' = told \cup {message} /\ UNCHANGED lost
    \/ lost' = lost \cup {"rejected"} /\ UNCHANGED told

\* A post that fails may have arrived.
PostFails(message) ==
    /\ told' \in {told, told \cup {message}}
    /\ lost' = lost \cup {"failed"}

-----------------------------------------------------------------------------
(* _check_api *)

\* Any answer will do; the health of the hardware is asked for next.
ApiAnswers ==
    /\ Steps("checking", [run EXCEPT !.pc = "hardware"])
    /\ ProbeStarts
    /\ Untold

\* Only a refused connection counts as an API that is down; a timeout is raised.
ApiFails ==
    /\ \/ Steps("checking", [run EXCEPT !.pc = "down"])
       \/ Steps("checking", Raised)
    /\ Untold
    /\ UNCHANGED healthVars

TellDown ==
    /\ \/ Steps("down", Returned("1")) /\ PlainAnswered("down")
       \/ Steps("down", Raised) /\ PostFails("down")
    /\ UNCHANGED <<fine, healthVars>>

-----------------------------------------------------------------------------
(* _fetch_hardware, _fetch_availability, _run_chsh, _run_qf *)

HardwareFetched ==
    /\ probe.pc = "done"
    /\ Steps("hardware", [run EXCEPT !.pc = "availability",
                                     !.hardware = IF AllOk THEN "ok" ELSE "issues"])
    /\ fine' = AllThere
    /\ ProbeForgotten
    /\ UNCHANGED <<told, lost>>

\* An HTTP error, or the timeout, is a result; a body that is no HealthStatus is raised.
HardwareFails ==
    /\ \/ Steps("hardware", [run EXCEPT !.pc = "availability", !.hardware = "failed"])
       \/ probe.pc = "done" /\ Steps("hardware", Raised)
    /\ ProbeForgotten
    /\ Untold

\* Mutant: every game that is available is played.
AllPlayed(available) == available

Played(available) == available \cap Games

\* Without an answer all games are played; a body that is not a dictionary is raised.
AvailabilityFetched ==
    /\ \/ \E available \in SUBSET Offered :
             Steps("availability", [run EXCEPT !.pc = "games", !.games = Played(available)])
       \/ Steps("availability", [run EXCEPT !.pc = "games", !.games = Games])
       \/ Steps("availability", Raised)
    /\ Untold
    /\ UNCHANGED healthVars

Plays(game) ==
    /\ game \in run.games
    /\ \E failed \in BOOLEAN :
          Steps("games", [run EXCEPT !.games = @ \ {game}, !.failed = @ \/ failed])
    /\ Untold
    /\ UNCHANGED healthVars

\* Whatever goes wrong is the game's result.
RunChsh == Plays("chsh")

\* A fortune that is not JSON is raised.
RunQf ==
    /\ "chsh" \notin run.games
    /\ \/ Plays("qf")
       \/ /\ "qf" \in run.games
          /\ Steps("games", Raised)
          /\ Untold
          /\ UNCHANGED healthVars

BuildDigest ==
    /\ run.games = {}
    /\ Steps("games", [run EXCEPT !.pc = "posting"])
    /\ Untold
    /\ UNCHANGED healthVars

\* Mutant: a probe that failed is no issue.
OverallOkIfProbed == run.hardware # "issues" /\ ~run.failed

OverallOk == run.hardware = "ok" /\ ~run.failed

-----------------------------------------------------------------------------
(* _post_slack *)

PostSlack ==
    /\ \/ /\ Steps("posting", Returned(IF OverallOk THEN "0" ELSE "1"))
          /\ told' = told \cup {"digest"}
          /\ UNCHANGED lost
       \/ Steps("posting", Returned("1")) /\ PostFails("digest")
    /\ UNCHANGED <<fine, healthVars>>

\* Mutant: a digest that Slack rejects is given up.
DigestGivenUp ==
    /\ Steps("posting", Returned("1"))
    /\ Untold
    /\ UNCHANGED healthVars

DigestRejected ==
    /\ Steps("posting", [run EXCEPT !.pc = "fallback"])
    /\ Untold
    /\ UNCHANGED healthVars

FallbackPosted ==
    /\ Steps("fallback", Returned("1"))
    /\ PlainAnswered("rejected") \/ PostFails("rejected")
    /\ UNCHANGED <<fine, healthVars>>

DisarmWatchdog ==
    /\ Steps("finally", [run EXCEPT !.pc = "ended", !.armed = FALSE])
    /\ Untold
    /\ UNCHANGED healthVars

\* The message that is being posted.
InFlight ==
    CASE run.pc = "down" -> {"down"}
      [] run.pc = "posting" -> {"digest"}
      [] run.pc = "fallback" -> {"rejected"}
      [] OTHER -> {}

\* The handler posts, whatever the run is doing, and kills the process; its post may be
\* accepted, rejected or fail.
WatchdogFires ==
    /\ run.armed
    /\ run' = [run EXCEPT !.pc = "ended", !.armed = FALSE, !.exit = "killed"]
    /\ \E sent \in SUBSET InFlight :
          \/ told' = told \cup sent \cup {"watchdog"} /\ UNCHANGED lost
          \/ /\ told' = told \cup sent
             /\ \E how \in {"rejected", "failed"} : lost' = lost \cup {how}
    /\ ProbeForgotten
    /\ UNCHANGED fine

RunNext ==
    \/ ApiAnswers \/ ApiFails \/ TellDown
    \/ HardwareFetched \/ HardwareFails \/ AvailabilityFetched
    \/ RunChsh \/ RunQf \/ BuildDigest
    \/ PostSlack \/ DigestRejected \/ FallbackPosted
    \/ DisarmWatchdog \/ WatchdogFires
    \/ HealthNext /\ UNCHANGED <<run, told, lost, fine>>

-----------------------------------------------------------------------------
\* A run exits with 0 only if the digest was its one message, every game it had to
\* play went well and every part and device that is configured was there when its probe
\* came to it.
ZeroMeansNominal ==
    run.pc = "ended" /\ run.exit = "0" => told = {"digest"} /\ fine /\ ~run.failed

\* A run that starts with a section ends without a message only when Slack could not be
\* reached, has rejected even a plain text, or an exception has escaped.  A digest that
\* Slack rejects is no reason: a plain text is tried after it.
SilenceIsExplained ==
    run.pc = "ended" /\ told = {} => lost # {} \/ run.exit \in {"raised", "unset"}

\* What the docstrings say together: _check_api returns "True if the API is reachable,
\* False otherwise", so that one message tells that it is down, and a failure of the
\* hardware probe does not keep the run from posting a digest; of a run that ends no later.
NoRunIsSilent ==
    run.pc = "ended" /\ run.exit # "unset" /\ run.hardware = "none" /\ lost = {} => told # {}

=============================================================================
