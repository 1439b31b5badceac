-------------------------- MODULE PolarimeterProofs --------------------------
(***************************************************************************)
(* The reported angle follows the light: from any angle, for any turns of  *)
(* 60 degrees at most between two readings, and whatever happens meanwhile.*)
(***************************************************************************)
EXTENDS Polarimeter, TLAPS

\* The heart of it: the wedges of 60 degrees tell the crossing of 180 degrees from
\* every turn of 60 degrees at most.
LEMMA WedgesTellTheHalf ==
    ASSUME NEW from \in 0..359, NEW t \in -60..60, NEW degrees \in 0..179,
           (from + t - degrees) % 180 = 0
    PROVE  Theta(from, degrees) = (from + t) % 360
<1> DEFINE k == (from + t - degrees) \div 180
<1>1. k \in Int /\ from + t - degrees = 180 * k
  <2>1. from + t - degrees \in Int
    OBVIOUS
  <2>2. \A n \in Int : n % 180 = 0 => n \div 180 \in Int /\ n = 180 * (n \div 180)
    BY SMT
  <2> HIDE DEF k
  <2> QED
    BY <2>1, <2>2 DEF k
<1> HIDE DEF k
<1>2. k \in {-1, 0, 1, 2}
  BY <1>1, SMT
<1>3. CASE from < 180
  <2>1. from \div 180 = 0 /\ from % 180 = from
    BY <1>3, SMT
  <2> QED
    BY <1>1, <1>2, <1>3, <2>1, SMT DEF Theta, WedgesApart, Distance
<1>4. CASE from >= 180
  <2>1. from \div 180 = 1 /\ from % 180 = from - 180
    BY <1>4, SMT
  <2> QED
    BY <1>1, <1>2, <1>4, <2>1, SMT DEF Theta, WedgesApart, Distance
<1> QED
  BY <1>3, <1>4, SMT

\* Integers a multiple of 180 apart leave the same remainder.
LEMMA SameRemainder ==
    ASSUME NEW a \in Int, NEW b \in Int, a % 180 = 0, b % 180 = 0
    PROVE  (a + b) % 180 = 0
BY SMT

LEMMA RemainderTakenOff ==
    ASSUME NEW a \in Int
    PROVE  /\ a % 180 \in 0..179
           /\ (a - (a % 180)) % 180 = 0
           /\ ((a % 180) - a) % 180 = 0
           /\ a % 360 \in 0..359
           /\ (a - (a % 360)) % 180 = 0
BY SMT

\* A reading reports an angle, and what the photodiodes saw or the opposite of it.
LEMMA ThetaIsAnAngle ==
    ASSUME NEW from \in 0..359, NEW degrees \in 0..179
    PROVE  /\ Theta(from, degrees) \in 0..359
           /\ (Theta(from, degrees) - degrees) % 180 = 0
<1>1. Theta(from, degrees) \in {degrees, degrees + 180}
  BY SMT DEF Theta
<1> HIDE DEF Theta
<1> QED
  BY <1>1, SMT

\* A turn, of the light and of the count of what it turned, cancels out.
LEMMA TurnKeepsStep ==
    ASSUME NEW from \in Int, NEW at \in Int, NEW t \in Int, NEW d \in Int,
           (from - (at - t)) % 180 = 0
    PROVE  (from - (((at + d) % 360) - (t + d))) % 180 = 0
<1> DEFINE wrapped == (at + d) - ((at + d) % 360)
<1>1. wrapped \in Int /\ wrapped % 180 = 0
  BY SMT
<1>2. from - (((at + d) % 360) - (t + d)) = (from - (at - t)) + wrapped
  BY SMT
<1> HIDE DEF wrapped
<1>3. ((from - (at - t)) + wrapped) % 180 = 0
  BY <1>1, SameRemainder, from - (at - t) \in Int
<1> QED
  BY <1>2, <1>3

-----------------------------------------------------------------------------
\* The inductive invariant.
IInv == PolTypeOK /\ InStep

LEMMA InitIInv == PolInit => IInv
<1> SUFFICES ASSUME PolInit PROVE IInv
  OBVIOUS
<1>1. 0 \in -MaxTurn..MaxTurn /\ 0 \in 0..359 /\ 359 \in 0..359
  BY PolarimeterAssumption, SMT
<1>2. PolTypeOK
  <2>1. angle \in 0..359 /\ last \in 0..359 /\ turned \in -MaxTurn..MaxTurn
    BY <1>1, Zenon DEF PolInit
  <2>2. buffers \in [filled: BOOLEAN, range: {"none", "point", "range"}, normalizing: BOOLEAN]
    BY DEF PolInit
  <2> QED
    BY <2>1, <2>2 DEF PolInit, PolTypeOK
<1> QED
  BY <1>2 DEF PolInit, IInv, InStep

LEMMA TurnIInv ==
    ASSUME IInv, NEW d \in Turns, Turn(d)
    PROVE  IInv'
<1>1. d \in Int /\ turned \in Int /\ angle \in 0..359 /\ last \in 0..359
  BY PolarimeterAssumption, SMT DEF IInv, PolTypeOK
<1>2. PolTypeOK'
  <2>1. angle' \in 0..359
    BY <1>1, RemainderTakenOff DEF Turn
  <2> QED
    BY <2>1 DEF Turn, IInv, PolTypeOK
<1>3. ASSUME tracking PROVE (last - (angle' - turned')) % 180 = 0
  <2>1. (last - (angle - turned)) % 180 = 0
    BY <1>3 DEF IInv, InStep
  <2> QED
    BY <1>1, <2>1, TurnKeepsStep DEF Turn
<1> QED
  BY <1>2, <1>3 DEF IInv, InStep, Turn

LEMMA ReadAngleIInv ==
    ASSUME IInv, ReadAngle
    PROVE  IInv'
<1>1. angle \in Int /\ angle \in 0..359 /\ last \in 0..359 /\ Degrees \in 0..179
  BY RemainderTakenOff, SMT DEF IInv, PolTypeOK, Degrees
<1>2. last' \in 0..359 /\ (last' - Degrees) % 180 = 0
  BY <1>1, ThetaIsAnAngle DEF ReadAngle
<1>3. (Degrees - angle) % 180 = 0
  BY <1>1, RemainderTakenOff DEF Degrees
<1>4. ((last' - Degrees) + (Degrees - angle)) % 180 = 0
  <2> DEFINE a == last' - Degrees
             b == Degrees - angle
  <2>1. a \in Int /\ b \in Int
    BY <1>1, <1>2, SMT
  <2>2. a % 180 = 0 /\ b % 180 = 0
    BY <1>2, <1>3, Zenon
  <2> HIDE DEF a, b
  <2>3. (a + b) % 180 = 0
    BY <2>1, <2>2, SameRemainder
  <2> QED
    BY <2>3 DEF a, b
<1>5. (last' - Degrees) + (Degrees - angle) = last' - (angle' - turned')
  BY <1>1, <1>2, SMT DEF ReadAngle
<1>6. PolTypeOK'
  BY <1>2, PolarimeterAssumption, SMT DEF ReadAngle, IInv, PolTypeOK
<1> QED
  BY <1>4, <1>5, <1>6 DEF IInv, InStep

LEMMA NextIInv == IInv /\ [PolNext]_polVars => IInv'
<1> SUFFICES ASSUME IInv, [PolNext]_polVars PROVE IInv'
  OBVIOUS
<1>1. CASE \E d \in Turns : Turn(d)
  BY <1>1, TurnIInv
<1>2. CASE Sample
  <2>1. PICK range \in Learns :
            buffers' = [buffers EXCEPT !.filled = TRUE, !.range = range]
    BY <1>2 DEF Sample
  <2>2. range \in {"none", "point", "range"}
    BY <2>1 DEF Learns, IInv, PolTypeOK
  <2> QED
    BY <1>2, <2>1, <2>2 DEF Sample, IInv, PolTypeOK, InStep
<1>3. CASE Reset \/ StartNormalizing
  <2>1. buffers.normalizing \in BOOLEAN
    BY DEF IInv, PolTypeOK
  <2>2. PICK normalizing \in BOOLEAN : Clears(normalizing)
    BY <1>3, <2>1 DEF Reset, StartNormalizing
  <2>3. 0 \in 0..359
    BY SMT
  <2>4. PolTypeOK'
    BY <2>2, <2>3 DEF Clears, IInv, PolTypeOK
  <2> QED
    BY <2>2, <2>4 DEF Clears, IInv, InStep
<1>4. CASE StopNormalizing
  BY <1>4 DEF StopNormalizing, IInv, PolTypeOK, InStep
<1>5. CASE ReadAngle
  BY <1>5, ReadAngleIInv
<1>6. CASE ReadNothing
  <2>1. 0 \in -MaxTurn..MaxTurn /\ 0 \in 0..359
    BY PolarimeterAssumption, SMT
  <2>2. PolTypeOK'
    BY <1>6, <2>1 DEF ReadNothing, IInv, PolTypeOK
  <2> QED
    BY <1>6, <2>2 DEF ReadNothing, IInv, InStep
<1>7. CASE UNCHANGED polVars
  BY <1>7 DEF polVars, IInv, PolTypeOK, InStep
<1> QED
  BY <1>1, <1>2, <1>3, <1>4, <1>5, <1>6, <1>7 DEF PolNext

-----------------------------------------------------------------------------
\* Every variable of the polarimeter keeps its type, whatever the light does.
THEOREM PolTypeCorrect == PolSpec => []PolTypeOK
<1>1. IInv => PolTypeOK
  BY DEF IInv
<1> QED
  BY InitIInv, NextIInv, <1>1, PTL DEF PolSpec

\* As long as readings are measurements, the angle reported last is the light's at that
\* time, or the opposite one, however far the light turned in between.
THEOREM StaysInStep == PolSpec => []InStep
<1>1. IInv => InStep
  BY DEF IInv
<1> QED
  BY InitIInv, NextIInv, <1>1, PTL DEF PolSpec

\* Two measurements in a row differ by what the light has turned in between, if that was
\* 60 degrees at most: from every angle and in either direction.
THEOREM ReadingFollowsTheTurn == PolSpec => FollowsTheTurn
<1> DEFINE Follows == ReadAngle =>
        (tracking /\ turned \in -60..60 => last' = (last + turned) % 360)
<1>1. ASSUME IInv, [PolNext]_polVars PROVE [Follows]_polVars
  <2> SUFFICES ASSUME ReadAngle, tracking, turned \in -60..60
               PROVE  last' = (last + turned) % 360
    OBVIOUS
  <2>1. angle \in Int /\ turned \in Int /\ last \in 0..359 /\ Degrees \in 0..179
    BY <1>1, RemainderTakenOff, SMT DEF IInv, PolTypeOK, Degrees
  <2>2. (last - (angle - turned)) % 180 = 0
    BY <1>1 DEF IInv, InStep
  <2>3. (angle - Degrees) % 180 = 0
    BY <2>1, RemainderTakenOff DEF Degrees
  <2>4. ((last - (angle - turned)) + (angle - Degrees)) % 180 = 0
    <3> DEFINE a == last - (angle - turned)
               b == angle - Degrees
    <3>1. a \in Int /\ b \in Int /\ a % 180 = 0 /\ b % 180 = 0
      BY <2>1, <2>2, <2>3, SMT
    <3> HIDE DEF a, b
    <3>2. (a + b) % 180 = 0
      BY <3>1, SameRemainder
    <3> QED
      BY <3>2 DEF a, b
  <2>5. (last - (angle - turned)) + (angle - Degrees) = last + turned - Degrees
    BY <2>1, SMT
  <2>6. (last + turned - Degrees) % 180 = 0
    BY <2>4, <2>5, Zenon
  <2>7. Theta(last, Degrees) = (last + turned) % 360
    <3>1. (last + turned - Degrees) % 180 = 0
             => Theta(last, Degrees) = (last + turned) % 360
      BY <2>1, WedgesTellTheHalf, ZenonT(30)
    <3> QED
      BY <2>6, <3>1
  <2> QED
    BY <2>7 DEF ReadAngle
<1>2. IInv /\ [PolNext]_polVars => [Follows]_polVars
  BY <1>1
<1> QED
  BY InitIInv, NextIInv, <1>2, PTL DEF PolSpec, FollowsTheTurn

\* A polarimeter that is not normalising, and has no range, reports no angle again,
\* whatever it samples and however the light turns, until it is told to normalise.
THEOREM StaysBlind == PolSpec => BlindUntilNormalized
<1> DEFINE Blind == ~buffers.normalizing /\ buffers.range # "range" =>
                       buffers'.normalizing \/ (~Sees' /\ last' \in {0, last})
<1>1. ASSUME IInv, [PolNext]_polVars PROVE [Blind]_polVars
  <2> SUFFICES ASSUME ~buffers.normalizing, buffers.range # "range",
                      ~buffers'.normalizing, PolNext
               PROVE  buffers'.range # "range" /\ last' \in {0, last}
    BY <1>1 DEF Sees
  <2>1. buffers \in [filled: BOOLEAN, range: {"none", "point", "range"}, normalizing: BOOLEAN]
    BY <1>1 DEF IInv, PolTypeOK
  <2>2. CASE \E d \in Turns : Turn(d)
    BY <2>2 DEF Turn
  <2>3. CASE Sample
    BY <2>1, <2>3 DEF Sample, Learns
  <2>4. CASE Reset \/ StartNormalizing
    BY <2>4 DEF Reset, StartNormalizing, Clears
  <2>5. CASE StopNormalizing
    BY <2>1, <2>5 DEF StopNormalizing
  <2>6. CASE ReadAngle
    BY <2>6 DEF ReadAngle, Sees
  <2>7. CASE ReadNothing
    BY <2>7 DEF ReadNothing
  <2> QED
    BY <2>2, <2>3, <2>4, <2>5, <2>6, <2>7 DEF PolNext
<1> QED
  BY InitIInv, NextIInv, <1>1, PTL DEF PolSpec, BlindUntilNormalized

=============================================================================
