--------------------------------- MODULE Hud ---------------------------------
(***************************************************************************)
(* HUDOverlayView on top of Telemetry: the video activity's view starts a  *)
(* thread that draws one of the gauges of telemtryDataMap, smoothed, again *)
(* and again. Each session has a view of its own; no thread is told to end.*)
(* The fields that the thread shares with others are plain ones; a value   *)
(* is read as it was last written.                                         *)
(***************************************************************************)
EXTENDS Telemetry, LowPass

CONSTANTS
  Gauge,   \* "compass" or "throttle"
  Unit     \* the numbers of the grid that a degree, or a pixel of the bar, has

VARIABLES
  isRunning,   \* of each view
  tDraw,       \* what the view's thread does next
  surface,     \* the view has one, and so a canvas to lock
  oldValue     \* of the gauge

hudVars == <<isRunning, tDraw, surface, oldValue>>
vars    == <<telemetryVars, hudVars>>

ASSUME GaugeAssumption == Gauge \in {"compass", "throttle"} /\ Unit \in Nat \ {0}

\* The course is read in degrees; the throttle is how far the number of
\* revolutions is from 230 to 365, or beyond.
Reading(v) ==
  IF Gauge = "compass" THEN v * Unit
  ELSE IF v < 230 THEN 0 ELSE ((v - 230) * smoothScale) \div 135

\* The degrees, or the pixels that the bar leaves empty: the (int) drops what
\* is after the point.
Cut(x)   == IF x < 0 THEN -((-x) \div Unit) ELSE x \div Unit
Shown(x) == IF Gauge = "compass" THEN Cut(x) ELSE Cut(smoothScale - x)

HudInit ==
  /\ Init
  /\ isRunning = [s \in Readers |-> FALSE] /\ tDraw = [s \in Readers |-> "none"]
  /\ surface = [s \in Readers |-> FALSE]
  /\ oldValue = [s \in Readers |-> 0]

-----------------------------------------------------------------------------
\* The UI thread: init of the view, the surface, and leaving the activity.
StartThread ==
  /\ alive /\ ui = "video" /\ ui' = "view"
  /\ tDraw' = [tDraw EXCEPT ![session] = "test"]
  /\ UNCHANGED <<session, reader, data, alive, value, drone, port,
                 isRunning, surface, oldValue>>

SetRunning ==
  /\ alive /\ ui = "view" /\ ui' = "playing"
  /\ isRunning' = [isRunning EXCEPT ![session] = TRUE]
  /\ UNCHANGED <<session, reader, data, alive, value, drone, port,
                 tDraw, surface, oldValue>>

SurfaceChange ==
  /\ alive /\ ui = "playing"
  /\ surface' = [surface EXCEPT ![session] = ~@]
  /\ UNCHANGED <<telemetryVars, isRunning, tDraw, oldValue>>

Leave ==
  /\ alive /\ ui = "playing" /\ ui' = "menu"
  /\ surface' = [surface EXCEPT ![session] = FALSE]
  /\ UNCHANGED <<session, reader, data, alive, value, drone, port,
                 isRunning, tDraw, oldValue>>

-----------------------------------------------------------------------------
\* The view's thread: while (isRunning) draw, which returns at once as long as
\* there is no canvas.
TestRunning(s) ==
  /\ alive /\ tDraw[s] = "test"
  /\ \/ isRunning[s] /\ surface[s] /\ tDraw' = [tDraw EXCEPT ![s] = "draw"]
     \/ ~isRunning[s] /\ tDraw' = [tDraw EXCEPT ![s] = "ended"]
  /\ UNCHANGED <<telemetryVars, isRunning, surface, oldValue>>

\* The map is read once; what else draw does is the thread's own.
draw(s) ==
  /\ alive /\ tDraw[s] = "draw"
  /\ oldValue' = [oldValue EXCEPT ![s] = smooth(oldValue[s], Reading(value))]
  /\ tDraw' = [tDraw EXCEPT ![s] = "test"]
  /\ UNCHANGED <<telemetryVars, isRunning, surface>>

Thread(s) == TestRunning(s) \/ draw(s)

Shared ==
  \/ onStartStreamClick \/ stopStream \/ startStream
  \/ \E r \in Readers : run(r)
  \/ CollectSocket \/ Drone

Next ==
  \/ Shared /\ UNCHANGED hudVars
  \/ StartThread \/ SetRunning \/ SurfaceChange \/ Leave
  \/ \E s \in Readers : Thread(s)

\* The threads run on, and a drone that streams keeps sending what it
\* measures. Nobody has to press a button, and nothing has to fail.
Fairness ==
  /\ \A r \in Readers : /\ WF_vars((Receive(r) \/ setData(r) \/ Crash(r)) /\ UNCHANGED hudVars)
                        /\ WF_vars(Thread(r))
  /\ WF_vars(Send /\ UNCHANGED hudVars)

Spec == HudInit /\ [][Next]_vars /\ Fairness

-----------------------------------------------------------------------------
\* Types: what setData cannot parse never gets into the map, and a gauge is
\* always a number.
TypeOK ==
  /\ TelemetryTypeOK
  /\ isRunning \in [Readers -> BOOLEAN] /\ surface \in [Readers -> BOOLEAN]
  /\ tDraw \in [Readers -> {"none", "test", "draw", "ended"}]
  /\ oldValue \in [Readers -> Int]

\* The compass turns the shorter way: where course and gauge are on the scale,
\* a drawing leaves the gauge there, and no further away from the course it
\* has just read, on either side of north.
ShorterWay ==
  [][\A s \in Readers :
       oldValue[s] \in 0..smoothScale /\ Reading(value) \in 0..smoothScale
         => /\ oldValue'[s] \in 0..smoothScale
            /\ Distance(oldValue'[s], Reading(value)) <= Distance(oldValue[s], Reading(value))
    ]_oldValue

\* From the drone to the display: when the drone streams one value, some
\* reader lives and the view has its surface and its thread, what the gauge
\* shows comes within one degree, or pixel, of that value and stays there. A
\* degree is what the (int) costs where the floats stop short of the value.
Watched(s, v) ==
  /\ alive /\ streaming /\ current = v
  /\ \E r \in Readers : reader[r] \in {"receive", "setData"}
  /\ surface[s] /\ tDraw[s] \notin {"none", "ended"}
Near(x, y) ==
  LET d == Abs(x - y)
      turn == smoothScale \div Unit
  IN d <= 1 \/ (Gauge = "compass" /\ d % turn \in {0, 1, turn - 1})
DisplayFollowsDrone ==
  \A s \in Readers, v \in Values :
    <>[]Watched(s, v) => <>[]Near(Shown(oldValue[s]), Shown(Reading(v)))
=============================================================================
