---------------------------- MODULE RotaryEncoder ----------------------------
(***************************************************************************)
(* SerialRotaryEncoder: a question is written to the serial port and the   *)
(* next line of its input is taken for the answer.                         *)
(***************************************************************************)
EXTENDS Naturals, Sequences

CONSTANTS
    MaxQuestions \* bound: how many questions are asked

ASSUME EncoderAssumption == MaxQuestions \in Nat

VARIABLES
    conn,   \* where the connection is: in __post_init__, in a read(), or in neither
    asked,  \* how many questions have been asked
    heard,  \* the questions the encoder has still to answer; 0 for those of __post_init__
    lines,  \* the input of the port: the questions answered
    late,   \* history: how many reads have ended before their answer came
    lag     \* history: how old the question was whose answer was returned last

encVars == <<conn, asked, heard, lines, late, lag>>

EncTypeOK ==
    /\ conn \in {"closed", "opening", "opened", "readying", "idle", "reading"}
    /\ asked \in 0..MaxQuestions
    /\ heard \in Seq(0..MaxQuestions)
    /\ lines \in Seq(0..MaxQuestions)
    /\ late \in Nat
    /\ lag \in Nat

EncInit ==
    /\ conn = "closed"
    /\ asked = 0
    /\ heard = <<>>
    /\ lines = <<>>
    /\ late = 0
    /\ lag = 0

-----------------------------------------------------------------------------
Writes(question, from, to) ==
    /\ conn = from
    /\ conn' = to
    /\ heard' = Append(heard, question)

\* __post_init__ writes "open_channel", then "ready".
OpenChannel == Writes(0, "closed", "opening") /\ UNCHANGED <<asked, lines, late, lag>>
Ready == Writes(0, "opened", "readying") /\ UNCHANGED <<asked, lines, late, lag>>

\* Mutant: what the encoder says to "ready" is not read.
ReadsOnce(from) == IF from = "opening" THEN <<>> ELSE lines

AfterRead(from) == <<>>

\* read(100) takes all that arrives within a second.
HandshakeRead(from, to) ==
    /\ conn = from
    /\ conn' = to
    /\ lines' = AfterRead(from)
    /\ late' = late + Len(heard)
    /\ UNCHANGED <<asked, heard, lag>>

EncoderAnswers ==
    /\ heard # <<>>
    /\ heard' = Tail(heard)
    /\ lines' = Append(lines, Head(heard))
    /\ UNCHANGED <<conn, asked, late, lag>>

EncoderIsDeaf ==
    /\ heard # <<>>
    /\ heard' = Tail(heard)
    /\ UNCHANGED <<conn, asked, lines, late, lag>>

\* read(): the calls come one after the other, they keep the event loop waiting.
Ask ==
    /\ asked < MaxQuestions
    /\ asked' = asked + 1
    /\ Writes(asked', "idle", "reading")
    /\ UNCHANGED <<lines, late, lag>>

\* A line that is no angle raises, and is gone.
ReadLine ==
    /\ conn = "reading"
    /\ lines # <<>>
    /\ conn' = "idle"
    /\ lines' = Tail(lines)
    /\ lag' = IF Head(lines) = 0 THEN lag ELSE asked - Head(lines)
    /\ UNCHANGED <<asked, heard, late>>

\* After a second the empty line raises; nothing is done about the answer to come.
ReadTimesOut ==
    /\ conn = "reading"
    /\ lines = <<>>
    /\ conn' = "idle"
    /\ late' = late + 1
    /\ UNCHANGED <<asked, heard, lines, lag>>

EncNext ==
    \/ OpenChannel \/ HandshakeRead("opening", "opened")
    \/ Ready \/ HandshakeRead("readying", "idle")
    \/ Ask \/ ReadLine \/ ReadTimesOut
    \/ EncoderAnswers \/ EncoderIsDeaf

EncSpec == EncInit /\ [][EncNext]_encVars

-----------------------------------------------------------------------------
\* A reading is as many questions old as reads have ended before their answer came,
\* at most: nothing else puts the answers out of step, and nothing puts them back.
LagIsLate == lag <= late

=============================================================================
