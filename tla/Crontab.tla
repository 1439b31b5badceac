------------------------------- MODULE Crontab -------------------------------
(***************************************************************************)
(* The schedule of the daily report: cron_manager.py and the schedule and  *)
(* unschedule commands.  Each command reads the user's crontab with one    *)
(* process and replaces it with another; nothing is locked in between.     *)
(***************************************************************************)
EXTENDS Naturals, FiniteSets

CONSTANTS
    Schedulers,   \* the runs of `pqn daily-report schedule`
    Unschedulers, \* the runs of `pqn daily-report unschedule`
    Entries,      \* the entries that the user keeps in the crontab
    Unreadable    \* the commands whose `crontab -l` may fail

Commands == Schedulers \cup Unschedulers

ASSUME CrontabAssumption ==
    /\ Schedulers \cap Unschedulers = {}
    /\ Entries \cap Commands = {}
    /\ Unreadable \subseteq Commands

VARIABLES
    table,   \* the crontab: entries of the user, and tagged lines, each named
             \* after the command that wrote it
    command, \* where each command is, and the lines it has read
    entries, \* history: the entries the user wants
    calm     \* history: no read has failed, no edit has fallen between a command's
             \* read and its write

cronVars == <<table, command, entries, calm>>

CronTypeOK ==
    /\ table \subseteq Entries \cup Schedulers
    /\ command \in [Commands ->
          [pc: {"off", "read", "done", "raised"}, lines: SUBSET (Entries \cup Schedulers)]]
    /\ entries \subseteq Entries
    /\ calm \in BOOLEAN

CronInit ==
    /\ table = {}
    /\ command = [c \in Commands |-> [pc |-> "off", lines |-> {}]]
    /\ entries = {}
    /\ calm = TRUE

\* The tagged lines: get_daily_report_job returns one of them, or None.
Jobs == table \cap Schedulers

-----------------------------------------------------------------------------
\* A failure of `crontab -l` reads as an empty table, as that of a user without one.
ReadCrontab(c) ==
    /\ command[c].pc = "off"
    /\ \/ /\ command' = [command EXCEPT ![c] = [pc |-> "read", lines |-> table]]
          /\ UNCHANGED calm
       \/ /\ c \in Unreadable
          /\ command' = [command EXCEPT ![c] = [pc |-> "read", lines |-> {}]]
          /\ calm' = (calm /\ table = {})
    /\ UNCHANGED <<table, entries>>

\* `pqn` is not on the PATH, or `crontab -` fails: nothing is written.
CommandRaises(c) ==
    /\ command[c].pc \in {"read"} \cup (IF c \in Schedulers THEN {"off"} ELSE {})
    /\ command' = [command EXCEPT ![c].pc = "raised"]
    /\ UNCHANGED <<table, entries, calm>>

Untagged(lines) == lines \cap Entries

\* Mutant: the job is the whole table.
JobOnly(c, lines) == {c}

Scheduled(c, lines) == Untagged(lines) \cup {c}

WriteCrontab(c, lines) ==
    /\ command' = [command EXCEPT ![c].pc = "done"]
    /\ table' = lines
    /\ UNCHANGED <<entries, calm>>

SetSchedule(c) ==
    /\ c \in Schedulers
    /\ command[c].pc = "read"
    /\ WriteCrontab(c, Scheduled(c, command[c].lines))

\* Nothing is written when no tagged line was read.
RemoveJob(c) ==
    LET lines == command[c].lines IN
    /\ c \in Unschedulers
    /\ command[c].pc = "read"
    /\ WriteCrontab(c, IF Untagged(lines) = lines THEN table ELSE Untagged(lines))

\* The user puts in an entry or takes it out.
UserEdits(f) ==
    /\ table' = IF f \in table THEN table \ {f} ELSE table \cup {f}
    /\ entries' = IF f \in table THEN entries \ {f} ELSE entries \cup {f}
    /\ calm' = (calm /\ \A c \in Commands : command[c].pc # "read")
    /\ UNCHANGED command

CronNext ==
    \/ \E c \in Commands : ReadCrontab(c) \/ CommandRaises(c) \/ SetSchedule(c) \/ RemoveJob(c)
    \/ \E f \in Entries : UserEdits(f)

-----------------------------------------------------------------------------
\* However the commands interleave, the report is scheduled once or not at all; and
\* they keep the entries of the user, unless a read has failed or an edit has fallen
\* between a command's read and its write.
TableIsKept ==
    /\ Cardinality(Jobs) <= 1
    /\ calm => table \cap Entries = entries

=============================================================================
