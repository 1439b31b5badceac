----------------------------- MODULE Polarimeter -----------------------------
(***************************************************************************)
(* ArduinoPolarimeter: four photodiodes tell the angle of the light's      *)
(* polarization up to half a turn, and read() guesses the half from the    *)
(* angle it reported last.  The readings are normalised by the range that  *)
(* the buffers have seen.  The four buffers are in step, their averages    *)
(* follow the light, and angles are whole degrees.                         *)
(***************************************************************************)
EXTENDS Integers

CONSTANTS
    Turns,  \* the turns of the light between two observations, in degrees
    MaxTurn \* bound: how far it turns between two readings

ASSUME PolarimeterAssumption == Turns \subseteq Int /\ MaxTurn \in Nat

VARIABLES
    angle,    \* the angle the light has turned to
    last,     \* _last_theta
    buffers,  \* what the buffers hold: whether any sample, which min and max, normalizing
    turned,   \* history: how far the light has turned since the last reading
    tracking  \* history: whether the last reading was a measurement

polVars == <<angle, last, buffers, turned, tracking>>

PolTypeOK ==
    /\ angle \in 0..359
    /\ last \in 0..359
    /\ buffers \in [filled: BOOLEAN, range: {"none", "point", "range"}, normalizing: BOOLEAN]
    /\ turned \in -MaxTurn..MaxTurn
    /\ tracking \in BOOLEAN

PolInit ==
    /\ angle \in {0, 359}
    /\ last = 0
    /\ buffers = [filled |-> FALSE, range |-> "none", normalizing |-> FALSE]
    /\ turned = 0
    /\ tracking = FALSE

Distance(i, j) == IF i < j THEN j - i ELSE i - j

\* What the photodiodes tell: an angle between 0 and 180.
Degrees == angle % 180

\* Mutant: a jump of one wedge is taken for the crossing of 180 degrees.
AnyWedgeApart(from, degrees) == Distance(degrees \div 60, (from % 180) \div 60) > 0

WedgesApart(from, degrees) == Distance(degrees \div 60, (from % 180) \div 60) > 1

\* PolarizationMeasurement.theta
Theta(from, degrees) ==
    LET shifted == (from \div 180 = 1) # WedgesApart(from, degrees) IN
    IF shifted THEN (degrees + 180) % 360 ELSE degrees

-----------------------------------------------------------------------------
Turn(d) ==
    /\ turned + d \in -MaxTurn..MaxTurn
    /\ angle' = (angle + d) % 360
    /\ turned' = turned + d
    /\ UNCHANGED <<last, buffers, tracking>>

\* Mutant: min and max follow every sample.
LearnsAlways == IF buffers.range = "none" THEN {"point"} ELSE {buffers.range, "range"}

Learns ==
    IF ~buffers.normalizing THEN {buffers.range}
    ELSE IF buffers.range = "none" THEN {"point"} ELSE {buffers.range, "range"}

\* Buffer.append, called by the Arduino's thread.
Sample ==
    /\ \E range \in Learns :
          buffers' = [buffers EXCEPT !.filled = TRUE, !.range = range]
    /\ UNCHANGED <<angle, last, turned, tracking>>

\* reset and start_normalizing clear the buffers, min and max.
Clears(normalizing) ==
    /\ buffers' = [filled |-> FALSE, range |-> "none", normalizing |-> normalizing]
    /\ last' = 0
    /\ tracking' = FALSE
    /\ UNCHANGED <<angle, turned>>

Reset == Clears(buffers.normalizing)

StartNormalizing == Clears(TRUE)

StopNormalizing ==
    /\ buffers' = [buffers EXCEPT !.normalizing = FALSE]
    /\ UNCHANGED <<angle, last, turned, tracking>>

Sees == buffers.filled /\ buffers.range = "range"

\* A sample outside a range that is no longer learned may make theta raise: then
\* nothing changes.
ReadAngle ==
    /\ Sees
    /\ last' = Theta(last, Degrees)
    /\ turned' = 0
    /\ tracking' = TRUE
    /\ UNCHANGED <<angle, buffers>>

\* Without samples, a range or light the angle is 0, and so is the next guess.
ReadNothing ==
    /\ last' = 0
    /\ turned' = 0
    /\ tracking' = FALSE
    /\ UNCHANGED <<angle, buffers>>

PolNext ==
    \/ \E d \in Turns : Turn(d)
    \/ Sample \/ Reset \/ StartNormalizing \/ StopNormalizing
    \/ ReadAngle \/ ReadNothing

PolSpec == PolInit /\ [][PolNext]_polVars

-----------------------------------------------------------------------------
\* As long as readings are measurements, what was reported last is the angle the
\* light had then, or the opposite one.
InStep == tracking => (last - (angle - turned)) % 180 = 0

\* Between two measurements the reported angle turns by what the light has turned, the
\* crossing of 180 and of 360 degrees included, if that was 60 degrees at most.  From
\* 61 degrees on the wedges mistake one turn for another, and the reported angle is off
\* by half a turn until the next reset.
FollowsTheTurn ==
    [][ReadAngle => (tracking /\ turned \in -60..60 => last' = (last + turned) % 360)]_polVars

\* A polarimeter that was reset, or whose normalisation was stopped too early, reports
\* no angle again, whatever it samples, until it is told to normalise once more.
BlindUntilNormalized ==
    [][~buffers.normalizing /\ buffers.range # "range" =>
           buffers'.normalizing \/ (~Sees' /\ last' \in {0, last})]_polVars

=============================================================================
