------------------------ MODULE RotaryEncoderProofs --------------------------
(***************************************************************************)
(* The answers of the rotary encoder are out of step by what has come      *)
(* late, however many questions are asked.                                 *)
(***************************************************************************)
EXTENDS RotaryEncoder, TLAPS

\* An answer that is still to be read is overtaken by a question whenever no question
\* waits for it.
Ahead == IF conn = "idle" THEN 1 ELSE 0

\* No more answers are to come than reads have ended without one, but for the question
\* that is being asked.
FewToCome ==
    /\ conn = "idle" => Len(lines) + Len(heard) <= late
    /\ conn = "reading" => Len(lines) + Len(heard) <= late + 1

\* How old a question will be when its answer is read: as many questions come before as
\* there are answers to read before it.
LinesInStep ==
    \A i \in 1..Len(lines) :
        /\ lines[i] <= asked
        /\ lines[i] # 0 => (asked - lines[i]) + (i - 1) + Ahead <= late

HeardInStep ==
    \A i \in 1..Len(heard) :
        /\ heard[i] <= asked
        /\ heard[i] # 0 => (asked - heard[i]) + (Len(lines) + i - 1) + Ahead <= late

\* Nothing is asked before the connection is open.
NothingAsked == conn \notin {"idle", "reading"} => asked = 0

IInv ==
    /\ EncTypeOK
    /\ NothingAsked
    /\ FewToCome
    /\ LinesInStep
    /\ HeardInStep
    /\ LagIsLate

-----------------------------------------------------------------------------
LEMMA InitIInv == EncInit => IInv
  BY EncoderAssumption
     DEF EncInit, IInv, EncTypeOK, NothingAsked, FewToCome, LinesInStep, HeardInStep, LagIsLate

LEMMA NextIInv == ASSUME IInv, [EncNext]_encVars PROVE IInv'
<1> USE EncoderAssumption
<1>1. CASE OpenChannel \/ Ready
  <2>1. /\ heard' = Append(heard, 0) /\ UNCHANGED <<asked, lines, late, lag>>
        /\ conn' \in {"opening", "readying"} /\ conn \in {"closed", "opened"}
    BY <1>1 DEF OpenChannel, Ready, Writes
  <2>2. /\ heard' \in Seq(0..MaxQuestions) /\ Len(heard') = Len(heard) + 1
        /\ \A i \in 1..Len(heard') : heard'[i] = IF i <= Len(heard) THEN heard[i] ELSE 0
    BY <2>1 DEF IInv, EncTypeOK
  <2>3. HeardInStep'
    BY <2>1, <2>2 DEF IInv, EncTypeOK, NothingAsked, HeardInStep, Ahead
  <2> QED
    BY <2>1, <2>2, <2>3 DEF IInv, EncTypeOK, NothingAsked, FewToCome, LinesInStep, Ahead, LagIsLate
<1>2. CASE HandshakeRead("opening", "opened") \/ HandshakeRead("readying", "idle")
  <2>1. /\ lines' = <<>> /\ late' = late + Len(heard) /\ UNCHANGED <<asked, heard, lag>>
        /\ conn' \in {"opened", "idle"} /\ asked = 0
    BY <1>2 DEF HandshakeRead, AfterRead, IInv, NothingAsked
  <2>2. Len(heard) \in Nat /\ Len(lines') = 0 /\ lines' \in Seq(0..MaxQuestions)
    BY <2>1 DEF IInv, EncTypeOK
  <2>3. \A i \in 1..Len(heard) : heard[i] \in 0..MaxQuestions /\ heard[i] <= 0
    BY <2>1 DEF IInv, EncTypeOK, HeardInStep
  <2>4. HeardInStep'
    BY <2>1, <2>3 DEF HeardInStep
  <2> QED
    BY <2>1, <2>2, <2>4 DEF IInv, EncTypeOK, NothingAsked, FewToCome, LinesInStep, LagIsLate
<1>3. CASE Ask
  <2>1. /\ asked' = asked + 1 /\ asked' \in 1..MaxQuestions /\ conn = "idle" /\ conn' = "reading"
        /\ heard' = Append(heard, asked + 1) /\ UNCHANGED <<lines, late, lag>>
    BY <1>3 DEF Ask, Writes, IInv, EncTypeOK
  <2>2. /\ heard' \in Seq(0..MaxQuestions) /\ Len(heard') = Len(heard) + 1
        /\ \A i \in 1..Len(heard') : heard'[i] = IF i <= Len(heard) THEN heard[i] ELSE asked + 1
    BY <2>1 DEF IInv, EncTypeOK
  <2>3. HeardInStep'
    BY <2>1, <2>2 DEF IInv, EncTypeOK, FewToCome, HeardInStep, Ahead
  <2>4. LinesInStep'
    BY <2>1 DEF IInv, EncTypeOK, LinesInStep, Ahead
  <2> QED
    BY <2>1, <2>2, <2>3, <2>4 DEF IInv, EncTypeOK, NothingAsked, FewToCome, LagIsLate
<1>4. CASE ReadLine
  <2>1. /\ conn = "reading" /\ conn' = "idle" /\ lines # <<>> /\ lines' = Tail(lines)
        /\ lag' = IF lines[1] = 0 THEN lag ELSE asked - lines[1]
        /\ UNCHANGED <<asked, heard, late>>
    BY <1>4 DEF ReadLine, IInv, EncTypeOK
  <2>2. /\ lines' \in Seq(0..MaxQuestions) /\ Len(lines) >= 1 /\ Len(lines') = Len(lines) - 1
        /\ \A i \in 1..Len(lines') : lines'[i] = lines[i + 1]
    BY <2>1 DEF IInv, EncTypeOK
  <2>3. LinesInStep'
    BY <2>1, <2>2 DEF IInv, EncTypeOK, LinesInStep, Ahead
  <2>4. HeardInStep'
    BY <2>1, <2>2 DEF IInv, EncTypeOK, HeardInStep, Ahead
  <2>5. lag' \in Nat /\ lag' <= late
    BY <2>1, <2>2 DEF IInv, EncTypeOK, LinesInStep, Ahead, LagIsLate
  <2> QED
    BY <2>1, <2>2, <2>3, <2>4, <2>5 DEF IInv, EncTypeOK, NothingAsked, FewToCome, LagIsLate
<1>5. CASE ReadTimesOut
  BY <1>5 DEF ReadTimesOut, IInv, EncTypeOK, NothingAsked, FewToCome, LinesInStep,
     HeardInStep, Ahead, LagIsLate
<1>6. CASE EncoderAnswers
  <2>1. /\ heard # <<>> /\ heard' = Tail(heard) /\ lines' = Append(lines, heard[1])
        /\ UNCHANGED <<conn, asked, late, lag>>
    BY <1>6 DEF EncoderAnswers, IInv, EncTypeOK
  <2>2. /\ heard' \in Seq(0..MaxQuestions) /\ Len(heard) >= 1 /\ Len(heard') = Len(heard) - 1
        /\ \A i \in 1..Len(heard') : heard'[i] = heard[i + 1]
    BY <2>1 DEF IInv, EncTypeOK
  <2>3. /\ lines' \in Seq(0..MaxQuestions) /\ Len(lines') = Len(lines) + 1
        /\ \A i \in 1..Len(lines') : lines'[i] = IF i <= Len(lines) THEN lines[i] ELSE heard[1]
    BY <2>1, <2>2 DEF IInv, EncTypeOK
  <2>4. LinesInStep'
    BY <2>1, <2>2, <2>3 DEF IInv, EncTypeOK, LinesInStep, HeardInStep, Ahead
  <2>5. HeardInStep'
    BY <2>1, <2>2, <2>3 DEF IInv, EncTypeOK, HeardInStep, Ahead
  <2> QED
    BY <2>1, <2>2, <2>3, <2>4, <2>5 DEF IInv, EncTypeOK, NothingAsked, FewToCome, LagIsLate
<1>7. CASE EncoderIsDeaf
  <2>1. heard # <<>> /\ heard' = Tail(heard) /\ UNCHANGED <<conn, asked, lines, late, lag>>
    BY <1>7 DEF EncoderIsDeaf
  <2>2. /\ heard' \in Seq(0..MaxQuestions) /\ Len(heard) >= 1 /\ Len(heard') = Len(heard) - 1
        /\ \A i \in 1..Len(heard') : heard'[i] = heard[i + 1]
    BY <2>1 DEF IInv, EncTypeOK
  <2>3. Len(lines) \in Nat /\ asked \in Nat /\ late \in Nat
    BY DEF IInv, EncTypeOK
  <2>4. HeardInStep'
    <3>1. ASSUME NEW i \in 1..Len(heard')
          PROVE  /\ heard'[i] <= asked
                 /\ heard'[i] # 0 =>
                       (asked - heard'[i]) + (Len(lines) + i - 1) + Ahead <= late
      <4>1. i + 1 \in 1..Len(heard) /\ heard'[i] = heard[i + 1] /\ heard[i + 1] \in 0..MaxQuestions
        BY <2>2 DEF IInv, EncTypeOK
      <4>2. /\ heard[i + 1] <= asked
            /\ heard[i + 1] # 0 =>
                  (asked - heard[i + 1]) + (Len(lines) + (i + 1) - 1) + Ahead <= late
        BY <4>1 DEF IInv, HeardInStep
      <4> QED
        BY <2>3, <4>1, <4>2 DEF Ahead
    <3>2. Ahead' = Ahead
      BY <2>1 DEF Ahead
    <3> QED
      BY <2>1, <3>1, <3>2 DEF HeardInStep
  <2>5. LinesInStep'
    BY <2>1 DEF IInv, LinesInStep, Ahead
  <2> QED
    BY <2>1, <2>2, <2>4, <2>5 DEF IInv, EncTypeOK, NothingAsked, FewToCome, LagIsLate
<1>8. CASE UNCHANGED encVars
  BY <1>8 DEF encVars, IInv, EncTypeOK, NothingAsked, FewToCome, LinesInStep, HeardInStep, Ahead,
     LagIsLate
<1> QED
  BY <1>1, <1>2, <1>3, <1>4, <1>5, <1>6, <1>7, <1>8 DEF EncNext

\* Every variable of the connection keeps its type.
THEOREM EncTypesHold == EncSpec => []EncTypeOK
<1>1. IInv => EncTypeOK
  BY DEF IInv
<1> QED
  BY InitIInv, NextIInv, <1>1, PTL DEF EncSpec

\* An angle that read() returns is as many questions old as reads have ended before
\* their answer came, at most.
THEOREM LateAnswersLag == EncSpec => []LagIsLate
<1>1. IInv => LagIsLate
  BY DEF IInv
<1> QED
  BY InitIInv, NextIInv, <1>1, PTL DEF EncSpec

=============================================================================
