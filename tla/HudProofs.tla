------------------------------ MODULE HudProofs ------------------------------
(***************************************************************************)
(* The gauges for every scale, every speed of the filter, all values and   *)
(* any number of sessions: a gauge is a number whatever the drone sends,   *)
(* and on its scale it does not turn away from the value it has read. The  *)
(* arithmetic is in the lemmas on LowPass; what the threads and the drone  *)
(* do is in TypeOK, which is inductive once it says that a reader about to *)
(* store a datagram has one (Holding).                                     *)
(***************************************************************************)
EXTENDS Hud, TLAPS

\* The part of a difference that is taken in one step is no more than it.
LEMMA NearestFacts ==
  ASSUME NEW d \in Nat
  PROVE  Nearest(d) \in 0..d
<1> DEFINE q == (2 * d + Slowness) \div (2 * Slowness)
<1>1. Slowness \in Nat /\ Slowness >= 1
  BY LowPassAssumption
<1>2. 2 * d + Slowness \in Nat /\ 2 * Slowness \in Nat /\ 2 * Slowness >= 2
  BY <1>1
<1>3. q \in Nat /\ q * (2 * Slowness) <= 2 * d + Slowness
  BY <1>1, <1>2
<1>4. q <= d
  <2> SUFFICES ASSUME q >= d + 1 PROVE FALSE
    BY <1>3
  <2> HIDE DEF q
  <2>1. q * (2 * Slowness) >= (d + 1) * (2 * Slowness)
    BY <1>1, <1>3
  <2>2. (d + 1) * (2 * Slowness) = 2 * (d * Slowness) + 2 * Slowness
    BY <1>1
  <2>3. d * Slowness >= d
    BY <1>1
  <2>4. d * Slowness \in Int /\ q * (2 * Slowness) \in Int /\ (d + 1) * (2 * Slowness) \in Int
    BY <1>1, <1>3
  <2> QED
    BY <1>1, <1>3, <2>1, <2>2, <2>3, <2>4
<1> QED
  BY <1>3, <1>4 DEF Nearest

LEMMA FractionFacts ==
  ASSUME NEW d \in Nat
  PROVE  Fraction(d) \in 0..d /\ Fraction(-d) = -Fraction(d)
<1>1. Fraction(d) = Nearest(d) /\ Nearest(d) \in 0..d
  BY NearestFacts DEF Fraction
<1>2. CASE d = 0
  BY <1>1, <1>2 DEF Fraction
<1>3. CASE d > 0
  <2>1. -d < 0 /\ -(-d) = d
    BY <1>3
  <2> QED
    BY <1>1, <2>1 DEF Fraction
<1> QED
  BY <1>1, <1>2, <1>3

LEMMA FractionInt == ASSUME NEW d \in Int PROVE Fraction(d) \in Int
<1>1. CASE d >= 0
  BY <1>1, FractionFacts
<1>2. CASE d < 0
  <2>1. -d \in Nat
    BY <1>2
  <2> QED
    BY <1>2, <2>1, NearestFacts DEF Fraction
<1> QED
  BY <1>1, <1>2

\* Java's remainder is the usual one from zero on, and always a number.
LEMMA RemFacts ==
  ASSUME NEW x \in Int
  PROVE  Rem(x, smoothScale) \in Int /\ (x >= 0 => Rem(x, smoothScale) = x % smoothScale)
<1>1. \A y \in Int : y % smoothScale \in Int
  BY LowPassAssumption
<1>2. -x \in Int
  OBVIOUS
<1> QED
  BY <1>1, <1>2 DEF Rem

\* The filter yields a number, on the scale or off it.
LEMMA SmoothInt ==
  ASSUME NEW old \in Int, NEW new \in Int
  PROVE  smooth(old, new) \in Int
<1> DEFINE up   == Rem(smoothScale + new - old, smoothScale)
           down == Rem(smoothScale - new + old, smoothScale)
<1>0. smoothScale \in Int
  BY LowPassAssumption
<1>1. up \in Int /\ down \in Int
  BY <1>0, RemFacts
<1> HIDE DEF up, down
<1>2. Fraction(up) \in Int /\ Fraction(down) \in Int
  BY <1>1, FractionInt
<1>3. old + Fraction(up) + smoothScale \in Int /\ old - Fraction(down) + smoothScale \in Int
  BY <1>0, <1>2
<1>4. /\ Rem(old + Fraction(up) + smoothScale, smoothScale) \in Int
      /\ Rem(old - Fraction(down) + smoothScale, smoothScale) \in Int
  BY <1>3, RemFacts
<1>5. Around(old, new) \in Int
  BY <1>4 DEF Around, up, down
<1>6. Approached(old, new) \in Int
  <2>1. new - old \in Int
    OBVIOUS
  <2>2. Fraction(new - old) \in Int
    BY <2>1, FractionInt
  <2> QED
    BY <2>2 DEF Approached
<1> QED
  BY <1>5, <1>6 DEF smooth

\* The remainder within the first three turns of the scale.
LEMMA Remainder ==
  ASSUME NEW x \in Nat, x < 3 * smoothScale
  PROVE  x % smoothScale = IF x < smoothScale THEN x
                           ELSE IF x < 2 * smoothScale THEN x - smoothScale
                           ELSE x - 2 * smoothScale
BY LowPassAssumption

LEMMA DistanceIs ==
  ASSUME NEW a \in 0..smoothScale, NEW b \in 0..smoothScale
  PROVE  Distance(a, b) = LET d == Abs(a - b)
                          IN IF 2 * d <= smoothScale THEN d ELSE smoothScale - d
<1>1. Abs(a - b) \in 0..smoothScale
  BY LowPassAssumption DEF Abs
<1>2. Abs(a - b) % smoothScale = IF Abs(a - b) < smoothScale THEN Abs(a - b) ELSE 0
  <2> HIDE DEF Abs
  <2> QED
    BY <1>1, LowPassAssumption, Remainder
<1> QED
  BY <1>1, <1>2, LowPassAssumption DEF Distance

LEMMA ApproachedFacts ==
  ASSUME NEW old \in 0..smoothScale, NEW new \in 0..smoothScale, Close(old, new)
  PROVE  /\ Approached(old, new) \in 0..smoothScale
         /\ Distance(Approached(old, new), new) <= Distance(old, new)
<1> DEFINE next == Approached(old, new)
<1>1. CASE old < new
  <2>1. new - old \in Nat /\ next = old + Fraction(new - old)
    BY <1>1, LowPassAssumption DEF Approached
  <2>2. Fraction(new - old) \in 0..(new - old)
    BY <2>1, FractionFacts
  <2>3. next \in old..new
    BY <2>1, <2>2, LowPassAssumption
  <2> HIDE DEF next
  <2>4. next \in 0..smoothScale
    BY <2>3, LowPassAssumption
  <2>5. 2 * (new - old) <= smoothScale
    BY <1>1, LowPassAssumption DEF Close, Abs
  <2> QED
    BY <1>1, <2>3, <2>4, <2>5, DistanceIs, LowPassAssumption DEF Abs, next
<1>2. CASE ~(old < new)
  <2>1. old - new \in Nat /\ next = old - Fraction(old - new)
    <3>1. old - new \in Nat /\ new - old = -(old - new)
      BY <1>2, LowPassAssumption
    <3>2. Fraction(old - new) \in Int /\ Fraction(-(old - new)) = -Fraction(old - new)
      BY <3>1, FractionFacts
    <3> QED
      BY <3>1, <3>2, LowPassAssumption DEF Approached
  <2>2. Fraction(old - new) \in 0..(old - new)
    BY <2>1, FractionFacts
  <2>3. next \in new..old
    BY <2>1, <2>2, LowPassAssumption
  <2> HIDE DEF next
  <2>4. next \in 0..smoothScale
    BY <2>3, LowPassAssumption
  <2>5. 2 * (old - new) <= smoothScale
    BY <1>2, LowPassAssumption DEF Close, Abs
  <2> QED
    BY <1>2, <2>3, <2>4, <2>5, DistanceIs, LowPassAssumption DEF Abs, next
<1> QED
  BY <1>1, <1>2

\* Around the end of the scale: e is how far it is that way.
LEMMA AroundFacts ==
  ASSUME NEW old \in 0..smoothScale, NEW new \in 0..smoothScale,
         ~Close(old, new), ~Far(old, new)
  PROVE  /\ Around(old, new) \in 0..smoothScale
         /\ Distance(Around(old, new), new) <= Distance(old, new)
<1> DEFINE next == Around(old, new)
<1>0. smoothScale \in Nat /\ smoothScale >= 1
  BY LowPassAssumption
<1>1. CASE old > new
  <2> DEFINE e == smoothScale + new - old
             f == Fraction(e)
  <2>1. e \in Nat /\ 2 * e <= smoothScale /\ e < smoothScale
    BY <1>1, LowPassAssumption DEF Far, Abs
  <2>2. Rem(e, smoothScale) = e
    <3>1. e % smoothScale = e /\ e \in Int /\ e >= 0
      BY <2>1, <1>0, Remainder
    <3> HIDE DEF e
    <3> QED
      BY <3>1, RemFacts
  <2>3. f \in 0..e
    BY <2>1, FractionFacts
  <2>4. next = (old + f + smoothScale) % smoothScale
    <3>1. next = Rem(old + f + smoothScale, smoothScale)
      BY <1>1, <2>2 DEF Around
    <3>2. old + f + smoothScale \in Int /\ old + f + smoothScale >= 0
      <4> HIDE DEF f
      <4> QED
        BY <2>1, <2>3, <1>0
    <3> HIDE DEF f, next
    <3> QED
      BY <3>1, <3>2, RemFacts
  <2> HIDE DEF f, next
  <2>5. old + f + smoothScale \in Nat /\ old + f + smoothScale < 3 * smoothScale
        /\ old + f + smoothScale >= smoothScale
    BY <2>1, <2>3, <1>0
  <2>6. next = IF old + f < smoothScale THEN old + f ELSE old + f - smoothScale
    <3> DEFINE x == old + f + smoothScale
    <3>1. x \in Nat /\ x < 3 * smoothScale /\ x >= smoothScale /\ next = x % smoothScale
      BY <2>4, <2>5
    <3> HIDE DEF x
    <3>2. x % smoothScale = IF x < 2 * smoothScale THEN x - smoothScale ELSE x - 2 * smoothScale
      BY <3>1, <1>0, Remainder
    <3> QED
      BY <3>1, <3>2, <2>3, <1>0 DEF x
  <2>7. next \in 0..smoothScale
    BY <2>1, <2>3, <2>6, <1>0
  <2>8. Distance(old, new) = e
    BY <1>0, <1>1, <2>1, DistanceIs DEF Abs
  <2>9. Distance(next, new) = e - f
    BY <1>0, <1>1, <2>1, <2>3, <2>6, <2>7, DistanceIs DEF Abs
  <2> QED
    BY <2>1, <2>3, <2>7, <2>8, <2>9 DEF next
<1>2. CASE ~(old > new)
  <2> DEFINE e == smoothScale - new + old
             f == Fraction(e)
  <2>1. e \in Nat /\ 2 * e <= smoothScale /\ e < smoothScale
    BY <1>2, LowPassAssumption DEF Far, Abs
  <2>2. Rem(e, smoothScale) = e
    <3>1. e % smoothScale = e /\ e \in Int /\ e >= 0
      BY <2>1, <1>0, Remainder
    <3> HIDE DEF e
    <3> QED
      BY <3>1, RemFacts
  <2>3. f \in 0..e
    BY <2>1, FractionFacts
  <2>4. next = (old - f + smoothScale) % smoothScale
    <3>1. next = Rem(old - f + smoothScale, smoothScale)
      BY <1>2, <2>2 DEF Around
    <3>2. old - f + smoothScale \in Int /\ old - f + smoothScale >= 0
      <4> HIDE DEF f
      <4> QED
        BY <2>1, <2>3, <1>0
    <3> HIDE DEF f, next
    <3> QED
      BY <3>1, <3>2, RemFacts
  <2> HIDE DEF f, next
  <2>5. old - f + smoothScale \in Nat /\ old - f + smoothScale < 3 * smoothScale
    BY <2>1, <2>3, <1>0
  <2>6. next = IF old - f < 0 THEN old - f + smoothScale ELSE
               IF old - f < smoothScale THEN old - f ELSE 0
    BY <2>1, <2>3, <2>4, <2>5, <1>0, Remainder
  <2>7. next \in 0..smoothScale
    BY <2>1, <2>3, <2>6, <1>0
  <2>8. Distance(old, new) = e
    BY <1>0, <1>2, <2>1, DistanceIs DEF Abs
  <2>9. Distance(next, new) = e - f
    BY <1>0, <1>2, <2>1, <2>3, <2>6, <2>7, DistanceIs DEF Abs
  <2> QED
    BY <2>1, <2>3, <2>7, <2>8, <2>9 DEF next
<1> QED
  BY <1>1, <1>2

\* A step of the filter stays on the scale and does not turn away.
LEMMA SmoothFacts ==
  ASSUME NEW old \in 0..smoothScale, NEW new \in 0..smoothScale
  PROVE  /\ smooth(old, new) \in 0..smoothScale
         /\ Distance(smooth(old, new), new) <= Distance(old, new)
<1>1. CASE Close(old, new)
  BY <1>1, ApproachedFacts DEF smooth
<1>2. CASE ~Close(old, new) /\ Far(old, new)
  <2>1. smooth(old, new) = new
    BY <1>2 DEF smooth
  <2>2. Distance(new, new) = 0 /\ Distance(old, new) \in Nat
    BY DistanceIs, LowPassAssumption DEF Abs
  <2> QED
    BY <2>1, <2>2
<1>3. CASE ~Close(old, new) /\ ~Far(old, new)
  BY <1>3, AroundFacts DEF smooth
<1> QED
  BY <1>1, <1>2, <1>3

-----------------------------------------------------------------------------
Holding == \A r \in Readers : reader[r] = "setData" => data[r] # Nothing

IInv == TypeOK /\ Holding

LEMMA ReadingFacts == ASSUME TypeOK PROVE Reading(value) \in Int
<1>1. value \in Int
  BY TelemetryAssumption DEF TypeOK, TelemetryTypeOK
<1>2. value * Unit \in Int
  BY <1>1, GaugeAssumption
<1>3. (value - 230) * smoothScale \in Int
  BY <1>1, LowPassAssumption
<1>4. ((value - 230) * smoothScale) \div 135 \in Int
  BY <1>3
<1> QED
  BY <1>2, <1>4 DEF Reading

\* The variables of the telemetry, when a step of a view leaves them alone.
LEMMA TelemetrySame ==
  ASSUME TelemetryTypeOK, UNCHANGED telemetryVars
  PROVE  TelemetryTypeOK'
BY DEF TelemetryTypeOK, telemetryVars, drone, port

LEMMA SharedType ==
  ASSUME TelemetryTypeOK, Holding, Shared
  PROVE  TelemetryTypeOK' /\ Holding'
<1> USE TelemetryAssumption DEF TelemetryTypeOK, Holding, drone, port
<1>1. CASE onStartStreamClick
  <2>1. session' \in 0..MaxSessions
    BY <1>1 DEF onStartStreamClick
  <2>2. reader' \in [Readers -> {"none", "bind", "receive", "setData", "ended"}]
    BY <1>1 DEF onStartStreamClick
  <2> QED
    BY <1>1, <2>1, <2>2 DEF onStartStreamClick
<1>2. CASE stopStream
  BY <1>2 DEF stopStream
<1>3. CASE startStream
  BY <1>3 DEF startStream
<1>4. ASSUME NEW r \in Readers, run(r) PROVE TelemetryTypeOK' /\ Holding'
  <2>1. CASE Bind(r)
    BY <2>1 DEF Bind
  <2>2. CASE connectionFailure(r)
    BY <2>2 DEF connectionFailure
  <2>3. CASE Receive(r)
    BY <2>3 DEF Receive
  <2>4. CASE setData(r)
    <3>1. data[r] \in Values
      BY <2>4 DEF setData, Parsable, Datagrams
    <3> QED
      BY <2>4, <3>1 DEF setData
  <2>5. CASE Crash(r)
    BY <2>5 DEF Crash
  <2> QED
    BY <1>4, <2>1, <2>2, <2>3, <2>4, <2>5 DEF run
<1>5. CASE CollectSocket
  BY <1>5 DEF CollectSocket
<1>6. CASE Drone
  BY <1>6 DEF Drone, Send, SendMalformed, Measure, StopLate, Datagrams
<1> QED
  BY <1>1, <1>2, <1>3, <1>4, <1>5, <1>6 DEF Shared

-----------------------------------------------------------------------------
LEMMA InitInvariant == HudInit => IInv
<1> SUFFICES ASSUME HudInit PROVE IInv
  OBVIOUS
<1> USE DEF HudInit, Init
<1>1. session \in 0..MaxSessions
  BY TelemetryAssumption
<1>3. reader \in [Readers -> {"none", "bind", "receive", "setData", "ended"}]
  OBVIOUS
<1>4. data \in [Readers -> Datagrams \cup {Nothing}] /\ inbox \in Datagrams \cup {Nothing}
  OBVIOUS
<1>5. socket \in {NoReader} \cup Readers /\ value \in Values /\ current \in Values
  BY TelemetryAssumption
<1>6. /\ alive \in BOOLEAN /\ streaming \in BOOLEAN /\ lateStop \in BOOLEAN
      /\ ui = "menu"
  OBVIOUS
<1>7. Holding
  BY DEF Holding
<1>2. oldValue \in [Readers -> Int]
  OBVIOUS
<1> QED
  BY <1>1, <1>2, <1>3, <1>4, <1>5, <1>6, <1>7 DEF IInv, TypeOK, TelemetryTypeOK

LEMMA ViewInvariant ==
  ASSUME IInv, StartThread \/ SetRunning \/ SurfaceChange \/ Leave
  PROVE  IInv'
<1> USE DEF IInv, TypeOK, TelemetryTypeOK, Holding
<1>1. CASE StartThread
  BY <1>1 DEF StartThread, drone, port
<1>2. CASE SetRunning
  BY <1>2 DEF SetRunning, drone, port
<1>3. CASE SurfaceChange
  BY <1>3 DEF SurfaceChange, telemetryVars, drone, port
<1>4. CASE Leave
  BY <1>4 DEF Leave, drone, port
<1> QED
  BY <1>1, <1>2, <1>3, <1>4

LEMMA ThreadInvariant ==
  ASSUME IInv, NEW s \in Readers, Thread(s)
  PROVE  IInv'
<1>1. UNCHANGED telemetryVars
  BY DEF Thread, TestRunning, draw
<1>2. TelemetryTypeOK' /\ Holding'
  BY <1>1, TelemetrySame DEF IInv, TypeOK, Holding, telemetryVars
<1>3. tDraw' \in [Readers -> {"none", "test", "draw", "ended"}]
  BY DEF Thread, TestRunning, draw, IInv, TypeOK
<1>4. isRunning' = isRunning /\ surface' = surface
  BY DEF Thread, TestRunning, draw
<1>5. oldValue' \in [Readers -> Int]
  <2>1. smooth(oldValue[s], Reading(value)) \in Int
    BY ReadingFacts, SmoothInt DEF IInv, TypeOK
  <2> QED
    BY <2>1 DEF Thread, TestRunning, draw, IInv, TypeOK
<1> QED
  BY <1>2, <1>3, <1>4, <1>5 DEF IInv, TypeOK

LEMMA StepInvariant == IInv /\ [Next]_vars => IInv'
<1> SUFFICES ASSUME IInv, [Next]_vars PROVE IInv'
  OBVIOUS
<1>1. CASE Shared /\ UNCHANGED hudVars
  BY <1>1, SharedType DEF IInv, TypeOK, hudVars
<1>2. CASE StartThread \/ SetRunning \/ SurfaceChange \/ Leave
  BY <1>2, ViewInvariant
<1>3. CASE \E s \in Readers : Thread(s)
  BY <1>3, ThreadInvariant
<1>4. CASE UNCHANGED vars
  BY <1>4, TelemetrySame DEF vars, hudVars, telemetryVars, IInv, TypeOK, Holding
<1> QED
  BY <1>1, <1>2, <1>3, <1>4 DEF Next

THEOREM Invariant == Spec => []IInv
<1>1. HudInit => IInv
  BY InitInvariant
<1>2. IInv /\ [Next]_vars => IInv'
  BY StepInvariant
<1> QED
  BY <1>1, <1>2, PTL DEF Spec

\* What setData cannot parse never gets into the map, and a gauge is always a
\* number, whatever the values, the scale, the filter's threshold and its
\* speed. It may leave the scale, for a reading off it.
THEOREM TypeCorrect == Spec => []TypeOK
BY Invariant, PTL DEF IInv

\* A drawing of HUDOverlayView that finds course and gauge on the scale leaves
\* the gauge on it, and no further away from the value it has just read, past
\* the end of the scale or not.
THEOREM ShorterWayTaken == Spec => ShorterWay
<1> DEFINE OnScale(s) == oldValue[s] \in 0..smoothScale /\ Reading(value) \in 0..smoothScale
           Better(s) == /\ oldValue'[s] \in 0..smoothScale
                        /\ Distance(oldValue'[s], Reading(value)) <= Distance(oldValue[s], Reading(value))
<1>1. IInv /\ [Next]_vars => [\A s \in Readers :
       oldValue[s] \in 0..smoothScale /\ Reading(value) \in 0..smoothScale
         => /\ oldValue'[s] \in 0..smoothScale
            /\ Distance(oldValue'[s], Reading(value)) <= Distance(oldValue[s], Reading(value))
    ]_oldValue
  <2> SUFFICES ASSUME IInv, [Next]_vars, oldValue' # oldValue, NEW s \in Readers, OnScale(s)
               PROVE  Better(s)
    OBVIOUS
  <2>1. PICK t \in Readers : draw(t)
    BY DEF Next, vars, hudVars, StartThread, SetRunning, SurfaceChange, Leave,
           Thread, TestRunning
  <2>2. oldValue \in [Readers -> Int]
    BY DEF IInv, TypeOK
  <2>3. CASE s = t
    <3>1. oldValue'[s] = smooth(oldValue[s], Reading(value))
      BY <2>1, <2>2, <2>3 DEF draw
    <3> QED
      BY <3>1, SmoothFacts
  <2>4. CASE s # t
    <3>1. oldValue'[s] = oldValue[s]
      BY <2>1, <2>2, <2>4 DEF draw
    <3>2. Distance(oldValue[s], Reading(value)) \in Int
      BY DistanceIs, LowPassAssumption DEF Abs
    <3> QED
      BY <3>1, <3>2
  <2> QED
    BY <2>3, <2>4
<1> QED
  BY <1>1, Invariant, PTL DEF Spec, ShorterWay
=============================================================================
