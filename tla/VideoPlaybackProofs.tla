------------------------- MODULE VideoPlaybackProofs -------------------------
(***************************************************************************)
(* Proofs about VideoPlayback: its safety properties, for any number of    *)
(* activities and windows, whenever the threads run and stores are seen.   *)
(***************************************************************************)
EXTENDS VideoPlayback, FiniteSetTheorems, TLAPS

\* A name for the history variables, no more.
USE DEF past

\* Where the main loop of the app thread is there.
LoopPlaces == {"check", "argument", "inform", "initialized", "run", "dispatch"}

\* The UI thread has told the main loop to end, for good.
Stopped(a) == data[a].memory = "freed" \/ UIAt(a, "join") \/ UIAt(a, "free")

\* What a native call under way relies on.
InCall ==
  ui.at # "idle" =>
    /\ ui.activity \in Activities /\ data[ui.activity].memory = "live"
    /\ ui.at \in {"clear", "swap"} => ui.window \in Windows
    /\ ui.at \in {"hide", "stop", "release"} => data[ui.activity].native_window \in Windows
    /\ ui.at \in {"inform", "play"} => app[ui.activity].at \in LoopPlaces

\* Which fields are set is known from how far the app thread has come, and it
\* leaves its main loop only for a stop.
Built(a) ==
  /\ data[a].memory = "none" <=> AppAt(a, "none")
  /\ app[a].at \in {"ready", "sink"} => data[a].pipeline # "none"
  /\ app[a].at \in {"loop"} \cup LoopPlaces => data[a].pipeline # "none" /\ data[a].video_sink
  /\ app[a].at \in LoopPlaces => data[a].main_loop
  /\ data[a].main_loop \/ seen[a].main_loop => app[a].at \in LoopPlaces \/ Stopped(a)
  /\ app[a].at \in {"cleanup", "unref"} => Stopped(a)
  /\ AppAt(a, "dispatch") => is_running[a] \/ Stopped(a)

\* The window whose reference is held for an activity: in the middle of a swap
\* it is no longer the old one, and at the end of a release none.
Counted(a) ==
  IF UIAt(a, "clear") \/ UIAt(a, "swap") THEN ui.window
  ELSE IF UIAt(a, "forget") THEN NoWindow ELSE data[a].native_window

References ==
  /\ \A w \in Windows : refs[w] = IF \E a \in Activities : Counted(a) = w THEN 1 ELSE 0
  /\ \A a, b \in Activities : Counted(a) = Counted(b) => a = b \/ Counted(a) = NoWindow

\* As long as no other activity is created, gst_app_thread is the thread of the
\* one that is alive, which is so the thread that its nativeStop joins.
Joined ==
  \A a \in Activities : ~overtaken[a] =>
    /\ data[a].memory = "live" => gst_app_thread = a
    /\ data[a].memory = "freed" \/ UIAt(a, "free") => AppAt(a, "done")

\* The windows of freed data, whose references are still held.
Leaks ==
  /\ \A a \in Activities : data[a].memory = "none" => data[a].native_window = NoWindow
  /\ \A w \in Windows :
       w \in leaked <=> \E a \in Activities : data[a].memory = "freed" /\ data[a].native_window = w

\* A window that has not been reported to a loop that runs is about to be.
ReportsAt(a) ==
  /\ seen[a].main_loop = data[a].main_loop
  /\ seen[a].native_window = data[a].native_window
  /\ app[a].at \in {"run", "dispatch"} /\ data[a].native_window # NoWindow =>
       reported[a] \/ UIAt(a, "check") \/ UIAt(a, "inform") \/ UIAt(a, "play")
Reports == ~stores_late => \A a \in Activities : ReportsAt(a)

IInv ==
  /\ TypeOK /\ InCall /\ (\A a \in Activities : Built(a))
  /\ References /\ Joined /\ Leaks /\ Reports

-----------------------------------------------------------------------------
\* Stores to the fields of one CustomData.
Others(a) == \A b \in Activities \ {a} : data'[b] = data[b]

LEMMA StoreMemory ==
  ASSUME data \in [Activities -> CustomData], NEW a \in Activities,
         NEW m \in {"none", "live", "freed"}, data' = [data EXCEPT ![a].memory = m]
  PROVE  /\ data' \in [Activities -> CustomData] /\ Others(a)
         /\ data'[a].memory = m /\ data'[a].pipeline = data[a].pipeline
         /\ data'[a].video_sink = data[a].video_sink /\ data'[a].main_loop = data[a].main_loop
         /\ data'[a].native_window = data[a].native_window
<1>1. data[a] \in CustomData
  OBVIOUS
<1>2. [data[a] EXCEPT !.memory = m] \in CustomData
  BY <1>1 DEF CustomData
<1>3. data'[a] = [data[a] EXCEPT !.memory = m]
  OBVIOUS
<1>4. QED
  BY <1>1, <1>2, <1>3 DEF CustomData, Others

LEMMA StorePipeline ==
  ASSUME data \in [Activities -> CustomData], NEW a \in Activities,
         NEW p \in Pipeline, data' = [data EXCEPT ![a].pipeline = p]
  PROVE  /\ data' \in [Activities -> CustomData] /\ Others(a)
         /\ data'[a].memory = data[a].memory /\ data'[a].pipeline = p
         /\ data'[a].video_sink = data[a].video_sink /\ data'[a].main_loop = data[a].main_loop
         /\ data'[a].native_window = data[a].native_window
<1>1. data[a] \in CustomData
  OBVIOUS
<1>2. [data[a] EXCEPT !.pipeline = p] \in CustomData
  BY <1>1 DEF CustomData
<1>3. data'[a] = [data[a] EXCEPT !.pipeline = p]
  OBVIOUS
<1>4. QED
  BY <1>1, <1>2, <1>3 DEF CustomData, Others

LEMMA StoreSink ==
  ASSUME data \in [Activities -> CustomData], NEW a \in Activities,
         data' = [data EXCEPT ![a].video_sink = TRUE]
  PROVE  /\ data' \in [Activities -> CustomData] /\ Others(a)
         /\ data'[a].memory = data[a].memory /\ data'[a].pipeline = data[a].pipeline
         /\ data'[a].video_sink = TRUE /\ data'[a].main_loop = data[a].main_loop
         /\ data'[a].native_window = data[a].native_window
<1>1. data[a] \in CustomData
  OBVIOUS
<1>2. [data[a] EXCEPT !.video_sink = TRUE] \in CustomData
  BY <1>1 DEF CustomData
<1>3. data'[a] = [data[a] EXCEPT !.video_sink = TRUE]
  OBVIOUS
<1>4. QED
  BY <1>1, <1>2, <1>3 DEF CustomData, Others

LEMMA StoreNoPipeline ==
  ASSUME data \in [Activities -> CustomData], NEW a \in Activities,
         data' = [data EXCEPT ![a].pipeline = "none", ![a].video_sink = FALSE]
  PROVE  /\ data' \in [Activities -> CustomData] /\ Others(a)
         /\ data'[a].memory = data[a].memory /\ data'[a].main_loop = data[a].main_loop
         /\ data'[a].native_window = data[a].native_window
<1>1. data[a] \in CustomData
  OBVIOUS
<1>2. DEFINE d == [data EXCEPT ![a].pipeline = "none"]
<1>3. data' = [d EXCEPT ![a].video_sink = FALSE]
  OBVIOUS
<1>4. d[a] = [data[a] EXCEPT !.pipeline = "none"] /\ \A b \in Activities \ {a} : d[b] = data[b]
  OBVIOUS
<1>5. d[a] \in CustomData
  BY <1>1, <1>4 DEF CustomData, Pipeline
<1>6. d \in [Activities -> CustomData]
  BY <1>4, <1>5
<1>7. data'[a] = [d[a] EXCEPT !.video_sink = FALSE]
  BY <1>3, <1>6
<1>8. data'[a] \in CustomData
  BY <1>5, <1>7 DEF CustomData
<1>9. QED
  BY <1>1, <1>4, <1>5, <1>6, <1>7, <1>8, <1>3 DEF CustomData, Others

LEMMA StoreMainLoop ==
  ASSUME TypeOK, NEW a \in Activities, NEW v \in BOOLEAN, SetMainLoop(a, v)
  PROVE  /\ data' \in [Activities -> CustomData] /\ Others(a)
         /\ data'[a].memory = data[a].memory /\ data'[a].pipeline = data[a].pipeline
         /\ data'[a].video_sink = data[a].video_sink /\ data'[a].main_loop = v
         /\ data'[a].native_window = data[a].native_window
         /\ seen' \in [Activities -> Signals] /\ \A b \in Activities \ {a} : seen'[b] = seen[b]
         /\ seen'[a].native_window = seen[a].native_window
         /\ seen'[a].main_loop = IF stores_late THEN seen[a].main_loop ELSE v
<1>1. data[a] \in CustomData /\ seen[a] \in Signals
  BY DEF TypeOK
<1>2. [data[a] EXCEPT !.main_loop = v] \in CustomData /\ [seen[a] EXCEPT !.main_loop = v] \in Signals
  BY <1>1 DEF CustomData, Signals
<1>3. data'[a] = [data[a] EXCEPT !.main_loop = v]
  BY DEF TypeOK, SetMainLoop
<1>4. seen'[a] = IF stores_late THEN seen[a] ELSE [seen[a] EXCEPT !.main_loop = v]
  BY DEF TypeOK, SetMainLoop
<1>5. data' \in [Activities -> CustomData] /\ Others(a)
  BY <1>1, <1>2, <1>3 DEF TypeOK, SetMainLoop, Others
<1>6. seen' \in [Activities -> Signals] /\ \A b \in Activities \ {a} : seen'[b] = seen[b]
  BY <1>1, <1>2, <1>4 DEF TypeOK, SetMainLoop
<1>7. QED
  BY <1>1, <1>2, <1>3, <1>4, <1>5, <1>6 DEF CustomData, Signals

LEMMA StoreWindow ==
  ASSUME TypeOK, NEW a \in Activities, NEW w \in Window, SetNativeWindow(a, w)
  PROVE  /\ data' \in [Activities -> CustomData] /\ Others(a)
         /\ data'[a].memory = data[a].memory /\ data'[a].pipeline = data[a].pipeline
         /\ data'[a].video_sink = data[a].video_sink /\ data'[a].main_loop = data[a].main_loop
         /\ data'[a].native_window = w
         /\ seen' \in [Activities -> Signals] /\ \A b \in Activities \ {a} : seen'[b] = seen[b]
         /\ seen'[a].main_loop = seen[a].main_loop
         /\ seen'[a].native_window = IF stores_late THEN seen[a].native_window ELSE w
<1>1. data[a] \in CustomData /\ seen[a] \in Signals
  BY DEF TypeOK
<1>2. [data[a] EXCEPT !.native_window = w] \in CustomData
      /\ [seen[a] EXCEPT !.native_window = w] \in Signals
  BY <1>1 DEF CustomData, Signals
<1>3. data'[a] = [data[a] EXCEPT !.native_window = w]
  BY DEF TypeOK, SetNativeWindow
<1>4. seen'[a] = IF stores_late THEN seen[a] ELSE [seen[a] EXCEPT !.native_window = w]
  BY DEF TypeOK, SetNativeWindow
<1>5. data' \in [Activities -> CustomData] /\ Others(a)
  BY <1>1, <1>2, <1>3 DEF TypeOK, SetNativeWindow, Others
<1>6. seen' \in [Activities -> Signals] /\ \A b \in Activities \ {a} : seen'[b] = seen[b]
  BY <1>1, <1>2, <1>4 DEF TypeOK, SetNativeWindow
<1>7. QED
  BY <1>1, <1>2, <1>3, <1>4, <1>5, <1>6 DEF CustomData, Signals

LEMMA StoreState ==
  ASSUME data \in [Activities -> CustomData], NEW a \in Activities,
         NEW state \in Pipeline \ {"none"}, SetPipeline(a, state)
  PROVE  /\ data' \in [Activities -> CustomData] /\ Others(a)
         /\ data'[a].memory = data[a].memory
         /\ data'[a].pipeline = "none" <=> data[a].pipeline = "none"
         /\ data'[a].video_sink = data[a].video_sink /\ data'[a].main_loop = data[a].main_loop
         /\ data'[a].native_window = data[a].native_window
<1>1. CASE data[a].pipeline = "none"
  BY <1>1 DEF SetPipeline, Others
<1>2. CASE data[a].pipeline # "none"
  BY <1>2, StorePipeline DEF SetPipeline
<1>3. QED
  BY <1>1, <1>2

-----------------------------------------------------------------------------
LEMMA AppMoves ==
  ASSUME TypeOK, NEW a \in Activities, NEW place \in AppPlaces, AppGoes(a, place)
  PROVE  /\ app' \in [Activities -> [at : AppPlaces, window : Window]]
         /\ app'[a].at = place /\ \A b \in Activities \ {a} : app'[b] = app[b]
         /\ ui' = ui /\ fixed' = fixed
<1>1. app[a] \in [at : AppPlaces, window : Window]
  BY DEF TypeOK
<1>2. app'[a] = [app[a] EXCEPT !.at = place]
  BY DEF TypeOK, AppGoes
<1>3. app'[a] \in [at : AppPlaces, window : Window] /\ app'[a].at = place
  BY <1>1, <1>2
<1>4. QED
  BY <1>3 DEF TypeOK, AppGoes, fixed

\* What is left to show of a step of an app thread.
LEMMA AppStep ==
  ASSUME IInv, NEW a \in Activities,
         ui' = ui, fixed' = fixed, refs' = refs, overtaken' = overtaken, leaked' = leaked,
         data' \in [Activities -> CustomData], Others(a),
         data'[a].memory = data[a].memory, data'[a].native_window = data[a].native_window,
         seen' \in [Activities -> Signals], \A b \in Activities \ {a} : seen'[b] = seen[b],
         app' \in [Activities -> [at : AppPlaces, window : Window]],
         \A b \in Activities \ {a} : app'[b] = app[b],
         ~AppAt(a, "done"), ~AppAt(a, "none"),
         app[a].at \in LoopPlaces => app'[a].at \in LoopPlaces \/ Stopped(a),
         is_running' \in [Activities -> BOOLEAN],
         \A b \in Activities \ {a} : is_running'[b] = is_running[b],
         sink_window' \in [Activities -> Window],
         reported' \in [Activities -> BOOLEAN],
         \A b \in Activities \ {a} : reported'[b] = reported[b],
         Built(a)', ~stores_late => ReportsAt(a)'
  PROVE  IInv'
<1>1. TypeOK'
  BY DEF IInv, TypeOK, fixed
<1>2. \A b \in Activities : /\ data'[b].memory = data[b].memory
                            /\ data'[b].native_window = data[b].native_window
  BY DEF Others
<1>3. InCall'
  <2>1. CASE ui.activity = a
    BY <1>2, <2>1 DEF IInv, InCall, Stopped, UIAt, LoopPlaces
  <2>2. CASE ui.activity # a
    BY <1>2, <2>2 DEF IInv, InCall
  <2>3. QED
    BY <2>1, <2>2
<1>4. ASSUME NEW b \in Activities
      PROVE  Built(b)'
  <2>1. CASE b = a
    BY <2>1
  <2>2. CASE b # a
    BY <2>2, <1>2 DEF IInv, Built, Others, AppAt, UIAt, Stopped
  <2>3. QED
    BY <2>1, <2>2
<1>5. References'
  <2>1. \A b \in Activities : Counted(b)' = Counted(b)
    BY <1>2 DEF Counted, UIAt
  <2>2. QED
    BY <2>1 DEF IInv, References
<1>6. Joined'
  BY <1>2 DEF IInv, Joined, UIAt, AppAt, fixed
<1>7. Leaks'
  <2>1. \A b \in Activities : data'[b].memory = "none" => data'[b].native_window = NoWindow
    BY <1>2 DEF IInv, Leaks
  <2>2. ASSUME NEW w \in Windows
        PROVE  w \in leaked' <=> \E b \in Activities : data'[b].memory = "freed" /\ data'[b].native_window = w
    BY <1>2 DEF IInv, Leaks
  <2>3. QED
    BY <2>1, <2>2 DEF Leaks
<1>8. Reports'
  BY DEF IInv, Reports, ReportsAt, UIAt, Others, fixed
<1>9. QED
  BY <1>1, <1>3, <1>4, <1>5, <1>6, <1>7, <1>8 DEF IInv

\* What is left to show of a step of the UI thread.
LEMMA UIStep ==
  ASSUME IInv, NEW a \in Activities,
         ui.at = "idle" \/ ui.activity = a, ui'.at = "idle" \/ ui'.activity = a,
         ui' \in [at : UIPlaces, activity : Activities \cup {NoThread}, window : Window],
         app' = app, fixed' = fixed, refs' \in [Windows -> 0..1],
         data' \in [Activities -> CustomData], Others(a),
         data[a].memory = "live", overtaken' = overtaken,
         \/ data'[a].memory = "live" /\ leaked' = leaked
         \/ /\ data'[a].memory = "freed" /\ data'[a].native_window = data[a].native_window
            /\ leaked' = leaked \cup ({data[a].native_window} \ {NoWindow}),
         data'[a].pipeline = "none" <=> data[a].pipeline = "none",
         data'[a].video_sink = data[a].video_sink, data'[a].main_loop = data[a].main_loop,
         seen' \in [Activities -> Signals], \A b \in Activities \ {a} : seen'[b] = seen[b],
         seen'[a].main_loop = seen[a].main_loop,
         is_running' \in [Activities -> BOOLEAN],
         \A b \in Activities \ {a} : is_running'[b] = is_running[b],
         sink_window' \in [Activities -> Window],
         reported' \in [Activities -> BOOLEAN],
         \A b \in Activities \ {a} : reported'[b] = reported[b],
         Stopped(a) => Stopped(a)', is_running'[a] = is_running[a] \/ Stopped(a)',
         InCall', References',
         ~overtaken[a] /\ (data'[a].memory = "freed" \/ UIAt(a, "free")') => AppAt(a, "done"),
         ~stores_late => ReportsAt(a)'
  PROVE  IInv'
<1>0. data[a].native_window \in Window
  BY DEF IInv, TypeOK, CustomData
<1>1. TypeOK'
  BY <1>0 DEF IInv, TypeOK, fixed, Window
<1>2. ASSUME NEW b \in Activities
      PROVE  Built(b)'
  <2>1. CASE b = a
    BY <2>1 DEF IInv, Built, AppAt
  <2>2. CASE b # a
    <3>1. data'[b] = data[b] /\ seen'[b] = seen[b] /\ is_running'[b] = is_running[b]
      BY <2>2 DEF Others
    <3>2. Stopped(b) => Stopped(b)'
      BY <2>2, <3>1 DEF Stopped, UIAt
    <3>3. QED
      BY <3>1, <3>2 DEF IInv, Built, AppAt
  <2>3. QED
    BY <2>1, <2>2
<1>3. Joined'
  BY DEF IInv, Joined, UIAt, AppAt, fixed, Others
<1>4. Leaks'
  <2>1. \A b \in Activities \ {a} : data'[b] = data[b]
    BY DEF Others
  <2>2. \A b \in Activities : data'[b].memory = "none" => data'[b].native_window = NoWindow
    BY <2>1 DEF IInv, Leaks
  <2>3. ASSUME NEW w \in Windows
        PROVE  w \in leaked' <=> \E b \in Activities : data'[b].memory = "freed" /\ data'[b].native_window = w
    BY <2>1, PlaybackAssumption DEF IInv, Leaks
  <2>4. QED
    BY <2>2, <2>3 DEF Leaks
<1>5. Reports'
  <2>1. ASSUME ~stores_late, NEW b \in Activities \ {a}
        PROVE  ReportsAt(b)'
    BY <2>1 DEF IInv, Reports, ReportsAt, UIAt, Others
  <2>2. QED
    BY <2>1 DEF Reports, fixed
<1>6. QED
  BY <1>1, <1>2, <1>3, <1>4, <1>5 DEF IInv

-----------------------------------------------------------------------------
\* The references, when nothing about them changes, and when the window that
\* counts for one activity is another one or none.
LEMMA CountsStay ==
  ASSUME References, refs' = refs, \A b \in Activities : Counted(b)' = Counted(b)
  PROVE  References'
BY DEF References

LEMMA CountMoves ==
  ASSUME References, NEW a \in Activities, NEW w \in Window,
         Counted(a)' = w, \A b \in Activities \ {a} : Counted(b)' = Counted(b),
         w = NoWindow \/ \A b \in Activities \ {a} : Counted(b) # w,
         \A x \in Windows : refs'[x] = IF x = w THEN 1 ELSE IF x = Counted(a) THEN 0 ELSE refs[x]
  PROVE  References'
<1>1. ASSUME NEW x \in Windows
      PROVE  refs'[x] = IF \E b \in Activities : Counted(b)' = x THEN 1 ELSE 0
  <2>1. CASE x = w
    BY <2>1
  <2>2. CASE x # w /\ x = Counted(a)
    BY <2>2, PlaybackAssumption DEF References
  <2>3. CASE x # w /\ x # Counted(a)
    BY <2>3 DEF References
  <2>4. QED
    BY <2>1, <2>2, <2>3
<1>2. \A b, c \in Activities : Counted(b)' = Counted(c)' => b = c \/ Counted(b)' = NoWindow
  BY DEF References
<1>3. QED
  BY <1>1, <1>2 DEF References

-----------------------------------------------------------------------------
(***************************************************************************)
(* The app thread.                                                         *)
(***************************************************************************)
LEMMA ParseKeeps == ASSUME IInv, NEW a \in Activities, ParsePipeline(a) PROVE IInv'
<1>1. TypeOK /\ Built(a) /\ (~stores_late => ReportsAt(a)) /\ app[a].at = "parse"
  BY DEF IInv, Reports, ParsePipeline, AppAt
<1>2. CASE data' = [data EXCEPT ![a].pipeline = "NULL"] /\ AppGoes(a, "ready")
  <2>1. app'[a].at = "ready" /\ data'[a].pipeline = "NULL"
    BY <1>1, <1>2, AppMoves, StorePipeline DEF TypeOK, AppPlaces, Pipeline
  <2>2. Built(a)' /\ (~stores_late => ReportsAt(a)')
    BY <1>1, <1>2, <2>1, AppMoves, StorePipeline
    DEF ParsePipeline, Built, ReportsAt, LoopPlaces, Stopped, UIAt, AppAt, TypeOK, AppPlaces, Pipeline
  <2>3. QED
    BY <1>1, <1>2, <2>1, <2>2, AppMoves, StorePipeline, AppStep
    DEF ParsePipeline, AppAt, LoopPlaces, TypeOK, AppPlaces, Pipeline
<1>3. CASE AppGoes(a, "done") /\ UNCHANGED data
  <2>1. app'[a].at = "done"
    BY <1>1, <1>3, AppMoves DEF AppPlaces
  <2>2. Built(a)' /\ (~stores_late => ReportsAt(a)')
    BY <1>1, <1>3, <2>1, AppMoves
    DEF ParsePipeline, Built, ReportsAt, LoopPlaces, Stopped, UIAt, AppAt, AppPlaces
  <2>3. QED
    BY <1>1, <1>3, <2>1, <2>2, AppMoves, AppStep
    DEF ParsePipeline, AppAt, LoopPlaces, TypeOK, AppPlaces, Others
<1>4. QED
  BY <1>2, <1>3 DEF ParsePipeline

LEMMA ReadyKeeps == ASSUME IInv, NEW a \in Activities, SetReady(a) PROVE IInv'
<1>1. TypeOK /\ Built(a) /\ (~stores_late => ReportsAt(a)) /\ app[a].at = "ready"
  BY DEF IInv, Reports, SetReady, AppAt
<1>2. app'[a].at = "sink"
  BY <1>1, AppMoves DEF SetReady, AppPlaces
<1>3. Built(a)' /\ (~stores_late => ReportsAt(a)')
  BY <1>1, <1>2, AppMoves, StoreState
  DEF SetReady, Built, ReportsAt, LoopPlaces, Stopped, UIAt, AppAt, TypeOK, AppPlaces, Pipeline
<1>4. QED
  BY <1>1, <1>2, <1>3, AppMoves, StoreState, AppStep
  DEF SetReady, AppAt, LoopPlaces, TypeOK, AppPlaces, Pipeline, Others

LEMMA SinkKeeps == ASSUME IInv, NEW a \in Activities, GetVideoSink(a) PROVE IInv'
<1>1. TypeOK /\ Built(a) /\ (~stores_late => ReportsAt(a)) /\ app[a].at = "sink"
  BY DEF IInv, Reports, GetVideoSink, AppAt
<1>2. CASE data' = [data EXCEPT ![a].video_sink = TRUE] /\ AppGoes(a, "loop")
  <2>1. app'[a].at = "loop"
    BY <1>1, <1>2, AppMoves DEF AppPlaces
  <2>2. Built(a)' /\ (~stores_late => ReportsAt(a)')
    BY <1>1, <1>2, <2>1, AppMoves, StoreSink
    DEF GetVideoSink, Built, ReportsAt, LoopPlaces, Stopped, UIAt, AppAt, TypeOK, AppPlaces
  <2>3. QED
    BY <1>1, <1>2, <2>1, <2>2, AppMoves, StoreSink, AppStep
    DEF GetVideoSink, AppAt, LoopPlaces, TypeOK, AppPlaces
<1>3. CASE AppGoes(a, "done") /\ UNCHANGED data
  <2>1. app'[a].at = "done"
    BY <1>1, <1>3, AppMoves DEF AppPlaces
  <2>2. Built(a)' /\ (~stores_late => ReportsAt(a)')
    BY <1>1, <1>3, <2>1, AppMoves
    DEF GetVideoSink, Built, ReportsAt, LoopPlaces, Stopped, UIAt, AppAt, AppPlaces
  <2>3. QED
    BY <1>1, <1>3, <2>1, <2>2, AppMoves, AppStep
    DEF GetVideoSink, AppAt, LoopPlaces, TypeOK, AppPlaces, Others
<1>4. QED
  BY <1>2, <1>3 DEF GetVideoSink

LEMMA LoopKeeps == ASSUME IInv, NEW a \in Activities, NewMainLoop(a) PROVE IInv'
<1>1. TypeOK /\ Built(a) /\ (~stores_late => ReportsAt(a)) /\ app[a].at = "loop"
  BY DEF IInv, Reports, NewMainLoop, AppAt
<1>2. app'[a].at = "check"
  BY <1>1, AppMoves DEF NewMainLoop, AppPlaces
<1>3. Built(a)' /\ (~stores_late => ReportsAt(a)')
  BY <1>1, <1>2, AppMoves, StoreMainLoop
  DEF NewMainLoop, Built, ReportsAt, LoopPlaces, Stopped, UIAt, AppAt, TypeOK, AppPlaces, Pipeline
<1>4. QED
  BY <1>1, <1>2, <1>3, AppMoves, StoreMainLoop, AppStep
  DEF NewMainLoop, AppAt, LoopPlaces, TypeOK, AppPlaces, Pipeline, Others

LEMMA CheckKeeps == ASSUME IInv, NEW a \in Activities, CheckWindow(a) PROVE IInv'
<1>1. TypeOK /\ Built(a) /\ (~stores_late => ReportsAt(a)) /\ app[a].at = "check"
  BY DEF IInv, Reports, CheckWindow, AppAt
<1>2. app'[a].at = IF seen[a].native_window # NoWindow THEN "argument" ELSE "run"
  BY <1>1, AppMoves DEF CheckWindow, AppPlaces
<1>3. Built(a)' /\ (~stores_late => ReportsAt(a)')
  BY <1>1, <1>2, AppMoves
  DEF CheckWindow, Built, ReportsAt, LoopPlaces, Stopped, UIAt, AppAt, AppPlaces
<1>4. QED
  BY <1>1, <1>2, <1>3, AppMoves, AppStep
  DEF CheckWindow, AppAt, LoopPlaces, TypeOK, AppPlaces, Others

LEMMA ReadKeeps == ASSUME IInv, NEW a \in Activities, ReadWindow(a) PROVE IInv'
<1>1. TypeOK /\ Built(a) /\ (~stores_late => ReportsAt(a)) /\ app[a].at = "argument"
  BY DEF IInv, Reports, ReadWindow, AppAt
<1>2. seen[a].native_window \in Window /\ app[a].window \in Window
  BY <1>1 DEF TypeOK, Signals, Window
<1>3. app' = [app EXCEPT ![a] = [at |-> "inform", window |-> seen[a].native_window]]
  BY DEF ReadWindow
<1>4. /\ app'[a].at = "inform" /\ \A b \in Activities \ {a} : app'[b] = app[b]
      /\ app' \in [Activities -> [at : AppPlaces, window : Window]]
  BY <1>1, <1>2, <1>3 DEF TypeOK, AppPlaces
<1>5. Built(a)' /\ (~stores_late => ReportsAt(a)')
  BY <1>1, <1>4 DEF ReadWindow, Built, ReportsAt, LoopPlaces, Stopped, UIAt, AppAt
<1>6. QED
  BY <1>1, <1>2, <1>4, <1>5, AppStep DEF ReadWindow, AppAt, LoopPlaces, TypeOK, Others, fixed

LEMMA InformKeeps == ASSUME IInv, NEW a \in Activities, InformSink(a) PROVE IInv'
<1>1. TypeOK /\ Built(a) /\ (~stores_late => ReportsAt(a)) /\ app[a].at = "inform"
  BY DEF IInv, Reports, InformSink, AppAt
<1>2. NoWindow \in Window /\ app[a].window \in Window
  BY <1>1 DEF TypeOK, Signals, Window
<1>3. app' = [app EXCEPT ![a] = [at |-> "initialized", window |-> NoWindow]]
  BY DEF InformSink
<1>4. /\ app'[a].at = "initialized" /\ \A b \in Activities \ {a} : app'[b] = app[b]
      /\ app' \in [Activities -> [at : AppPlaces, window : Window]]
  BY <1>1, <1>2, <1>3 DEF TypeOK, AppPlaces
<1>5. Built(a)' /\ (~stores_late => ReportsAt(a)')
  BY <1>1, <1>4 DEF InformSink, Built, ReportsAt, LoopPlaces, Stopped, UIAt, AppAt
<1>6. QED
  BY <1>1, <1>2, <1>4, <1>5, AppStep DEF InformSink, AppAt, LoopPlaces, TypeOK, Others, fixed

LEMMA InitializedKeeps == ASSUME IInv, NEW a \in Activities, Initialized(a) PROVE IInv'
<1>1. TypeOK /\ Built(a) /\ (~stores_late => ReportsAt(a)) /\ app[a].at = "initialized"
  BY DEF IInv, Reports, Initialized, AppAt
<1>2. app'[a].at = "run"
  BY <1>1, AppMoves DEF Initialized, AppPlaces
<1>3. Built(a)' /\ (~stores_late => ReportsAt(a)')
  BY <1>1, <1>2, AppMoves, StoreState
  DEF Initialized, Built, ReportsAt, LoopPlaces, Stopped, UIAt, AppAt, TypeOK, AppPlaces, Pipeline
<1>4. QED
  BY <1>1, <1>2, <1>3, AppMoves, StoreState, AppStep
  DEF Initialized, AppAt, LoopPlaces, TypeOK, AppPlaces, Pipeline, Others

LEMMA RunKeeps == ASSUME IInv, NEW a \in Activities, RunMainLoop(a) PROVE IInv'
<1>1. TypeOK /\ Built(a) /\ (~stores_late => ReportsAt(a)) /\ app[a].at = "run"
  BY DEF IInv, Reports, RunMainLoop, AppAt
<1>2. app'[a].at = "dispatch" /\ is_running'[a] = TRUE
  BY <1>1, AppMoves DEF RunMainLoop, AppPlaces, TypeOK
<1>3. data[a].main_loop \in BOOLEAN /\ seen[a] \in Signals
  BY <1>1 DEF TypeOK, CustomData
<1>4. [seen[a] EXCEPT !.main_loop = data[a].main_loop] \in Signals
  BY <1>3 DEF Signals
<1>5. seen'[a] = [seen[a] EXCEPT !.main_loop = data[a].main_loop]
  BY <1>1 DEF RunMainLoop, TypeOK
<1>6. seen' \in [Activities -> Signals] /\ \A b \in Activities \ {a} : seen'[b] = seen[b]
  BY <1>1, <1>4, <1>5 DEF RunMainLoop, TypeOK
<1>7. seen'[a].main_loop = data[a].main_loop /\ seen'[a].native_window = seen[a].native_window
  BY <1>3, <1>5 DEF Signals
<1>8. Built(a)' /\ (~stores_late => ReportsAt(a)')
  BY <1>1, <1>2, <1>7, AppMoves
  DEF RunMainLoop, Built, ReportsAt, LoopPlaces, Stopped, UIAt, AppAt, AppPlaces
<1>9. QED
  BY <1>1, <1>2, <1>6, <1>8, AppMoves, AppStep
  DEF RunMainLoop, AppAt, LoopPlaces, TypeOK, AppPlaces, Others

LEMMA ErrorKeeps == ASSUME IInv, NEW a \in Activities, error_cb(a) PROVE IInv'
<1>1. TypeOK /\ Built(a) /\ (~stores_late => ReportsAt(a)) /\ app[a].at = "dispatch"
  BY DEF IInv, Reports, error_cb, AppAt
<1>2. Built(a)' /\ (~stores_late => ReportsAt(a)')
  BY <1>1, StoreState
  DEF error_cb, threads, Built, ReportsAt, LoopPlaces, Stopped, UIAt, AppAt, TypeOK, Pipeline
<1>3. QED
  BY <1>1, <1>2, StoreState, AppStep
  DEF error_cb, threads, AppAt, LoopPlaces, TypeOK, Pipeline

LEMMA ExitKeeps == ASSUME IInv, NEW a \in Activities, ExitMainLoop(a) PROVE IInv'
<1>1. TypeOK /\ Built(a) /\ (~stores_late => ReportsAt(a)) /\ app[a].at = "dispatch"
  BY DEF IInv, Reports, ExitMainLoop, AppAt
<1>2. app'[a].at = "cleanup"
  BY <1>1, AppMoves DEF ExitMainLoop, AppPlaces
<1>3. Built(a)' /\ (~stores_late => ReportsAt(a)')
  BY <1>1, <1>2, AppMoves
  DEF ExitMainLoop, Built, ReportsAt, LoopPlaces, Stopped, UIAt, AppAt, TypeOK, AppPlaces, Pipeline
<1>4. Stopped(a)
  BY <1>1 DEF ExitMainLoop, Built, AppAt
<1>5. /\ app' \in [Activities -> [at : AppPlaces, window : Window]]
      /\ \A b \in Activities \ {a} : app'[b] = app[b]
      /\ ui' = ui /\ fixed' = fixed
  BY <1>1, AppMoves DEF ExitMainLoop, AppPlaces
<1>6. /\ data' \in [Activities -> CustomData] /\ seen' \in [Activities -> Signals]
      /\ is_running' \in [Activities -> BOOLEAN] /\ sink_window' \in [Activities -> Window]
      /\ reported' \in [Activities -> BOOLEAN] /\ ~AppAt(a, "done") /\ ~AppAt(a, "none")
  BY <1>1 DEF ExitMainLoop, TypeOK, AppAt
<1>7. QED
  BY <1>1, <1>3, <1>4, <1>5, <1>6, AppStep DEF ExitMainLoop, Others

LEMMA ForgetLoopKeeps == ASSUME IInv, NEW a \in Activities, ForgetMainLoop(a) PROVE IInv'
<1>1. TypeOK /\ Built(a) /\ (~stores_late => ReportsAt(a)) /\ app[a].at = "cleanup"
  BY DEF IInv, Reports, ForgetMainLoop, AppAt
<1>2. app'[a].at = "unref"
  BY <1>1, AppMoves DEF ForgetMainLoop, AppPlaces
<1>3. Built(a)' /\ (~stores_late => ReportsAt(a)')
  <2>1. ui' = ui /\ data'[a].memory = data[a].memory /\ data'[a].main_loop = FALSE
    BY <1>1, AppMoves, StoreMainLoop DEF ForgetMainLoop, AppPlaces
  <2>2. Built(a)'
    <3>1. Stopped(a)
      BY <1>1 DEF Built
    <3>2. Stopped(a)'
      BY <2>1, <3>1 DEF Stopped, UIAt
    <3>3. data'[a].memory # "none"
      BY <1>1, <2>1 DEF Built, AppAt
    <3>4. QED
      BY <1>2, <2>1, <3>2, <3>3 DEF Built, AppAt, LoopPlaces
  <2>3. ~stores_late => ReportsAt(a)'
    BY <1>1, <1>2, StoreMainLoop DEF ForgetMainLoop, ReportsAt
  <2>4. QED
    BY <2>2, <2>3
<1>4. /\ app' \in [Activities -> [at : AppPlaces, window : Window]]
      /\ \A b \in Activities \ {a} : app'[b] = app[b]
      /\ ui' = ui /\ fixed' = fixed
  BY <1>1, AppMoves DEF ForgetMainLoop, AppPlaces
<1>5. /\ is_running' \in [Activities -> BOOLEAN] /\ sink_window' \in [Activities -> Window]
      /\ reported' \in [Activities -> BOOLEAN]
      /\ ~AppAt(a, "done") /\ ~AppAt(a, "none") /\ app[a].at \notin LoopPlaces
  BY <1>1 DEF ForgetMainLoop, TypeOK, AppAt, LoopPlaces
<1>6. QED
  BY <1>1, <1>3, <1>4, <1>5, StoreMainLoop, AppStep DEF ForgetMainLoop

LEMMA UnrefKeeps == ASSUME IInv, NEW a \in Activities, UnrefPipeline(a) PROVE IInv'
<1>1. TypeOK /\ Built(a) /\ (~stores_late => ReportsAt(a)) /\ app[a].at = "unref"
  BY DEF IInv, Reports, UnrefPipeline, AppAt
<1>2. app'[a].at = "done"
  BY <1>1, AppMoves DEF UnrefPipeline, AppPlaces
<1>3. Built(a)' /\ (~stores_late => ReportsAt(a)')
  BY <1>1, <1>2, AppMoves, StoreNoPipeline
  DEF UnrefPipeline, Built, ReportsAt, LoopPlaces, Stopped, UIAt, AppAt, TypeOK, AppPlaces, Pipeline
<1>4. sink_window' \in [Activities -> Window]
  BY <1>1 DEF UnrefPipeline, TypeOK, Window
<1>5. /\ app' \in [Activities -> [at : AppPlaces, window : Window]]
      /\ \A b \in Activities \ {a} : app'[b] = app[b]
      /\ ui' = ui /\ fixed' = fixed
  BY <1>1, AppMoves DEF UnrefPipeline, AppPlaces
<1>6. /\ seen' \in [Activities -> Signals] /\ is_running' \in [Activities -> BOOLEAN]
      /\ reported' \in [Activities -> BOOLEAN]
      /\ ~AppAt(a, "done") /\ ~AppAt(a, "none") /\ app[a].at \notin LoopPlaces
  BY <1>1 DEF UnrefPipeline, TypeOK, AppAt, LoopPlaces
<1>7. /\ data' \in [Activities -> CustomData] /\ Others(a)
      /\ data'[a].memory = data[a].memory /\ data'[a].native_window = data[a].native_window
  BY <1>1, StoreNoPipeline DEF UnrefPipeline, TypeOK
<1>8. refs' = refs /\ seen' = seen /\ is_running' = is_running /\ past' = past
  BY DEF UnrefPipeline
<1>9. QED
  BY <1>1, <1>3, <1>4, <1>5, <1>6, <1>7, <1>8, AppStep

-----------------------------------------------------------------------------
(***************************************************************************)
(* The UI thread, inside a native call.                                    *)
(***************************************************************************)
LEMMA UIMoves ==
  ASSUME TypeOK, NEW place \in UIPlaces, UIGoes(place)
  PROVE  /\ ui' \in [at : UIPlaces, activity : Activities \cup {NoThread}, window : Window]
         /\ ui'.at = place /\ ui'.activity = ui.activity /\ ui'.window = ui.window
         /\ app' = app /\ fixed' = fixed
BY DEF TypeOK, UIGoes, fixed

LEMMA UIEnds ==
  ASSUME TypeOK, UIReturns
  PROVE  /\ ui' \in [at : UIPlaces, activity : Activities \cup {NoThread}, window : Window]
         /\ ui'.at = "idle" /\ app' = app /\ fixed' = fixed
BY DEF UIReturns, Idle, fixed, UIPlaces, Window

\* What is known in a native call, at one of its places.
LEMMA UIKnows ==
  ASSUME IInv, NEW a \in Activities, NEW place \in UIPlaces \ {"idle"}, UIAt(a, place)
  PROVE  /\ TypeOK /\ InCall /\ Built(a) /\ References
         /\ ~stores_late => ReportsAt(a)
         /\ ui.at = place /\ ui.activity = a /\ data[a].memory = "live"
BY DEF IInv, InCall, Reports, UIAt

LEMMA ClearKeeps == ASSUME IInv, NEW a \in Activities, ClearWindow(a) PROVE IInv'
<1>1. /\ TypeOK /\ InCall /\ Built(a) /\ References /\ (~stores_late => ReportsAt(a))
      /\ ui.at = "clear" /\ ui.activity = a /\ data[a].memory = "live"
  BY UIKnows DEF ClearWindow, UIPlaces
<1>2. ui'.at = "swap" /\ ui'.activity = a /\ app' = app /\ fixed' = fixed
  BY <1>1, UIMoves DEF ClearWindow, UIPlaces
<1>3. InCall'
  BY <1>1, <1>2, UIMoves, StoreWindow DEF ClearWindow, InCall, UIAt, UIPlaces, TypeOK, Pipeline, Window
<1>4. References'
  <2>1. ui'.window = ui.window /\ Others(a)
    BY <1>1, UIMoves, StoreWindow DEF ClearWindow, UIPlaces, Window
  <2>2. \A b \in Activities : Counted(b)' = Counted(b)
    BY <1>1, <1>2, <2>1 DEF Counted, UIAt, Others
  <2>3. QED
    BY <1>1, <2>2, CountsStay DEF ClearWindow
<1>5. ~stores_late => ReportsAt(a)'
  BY <1>1, <1>2, UIMoves, StoreWindow DEF ClearWindow, ReportsAt, UIAt, UIPlaces, TypeOK, Pipeline, Window
<1>6. QED
  BY <1>1, <1>2, <1>3, <1>4, <1>5, UIMoves, StoreWindow, UIStep
  DEF ClearWindow, UIAt, Stopped, UIPlaces, TypeOK, Others, Pipeline, Window

LEMMA SwapKeeps == ASSUME IInv, NEW a \in Activities, SwapWindow(a) PROVE IInv'
<1>1. /\ TypeOK /\ InCall /\ Built(a) /\ References /\ (~stores_late => ReportsAt(a))
      /\ ui.at = "swap" /\ ui.activity = a /\ data[a].memory = "live"
  BY UIKnows DEF SwapWindow, UIPlaces
<1>2. ui'.at = "check" /\ ui'.activity = a /\ app' = app /\ fixed' = fixed
  BY <1>1, UIMoves DEF SwapWindow, UIPlaces
<1>3. InCall'
  BY <1>1, <1>2, UIMoves, StoreWindow DEF SwapWindow, InCall, UIAt, UIPlaces, TypeOK, Pipeline, Window
<1>4. References'
  <2>1. \A b \in Activities : Counted(b)' = Counted(b)
    BY <1>1, <1>2, UIMoves, StoreWindow DEF SwapWindow, Counted, UIAt, Others, TypeOK, Pipeline, Window
  <2>2. QED
    BY <1>1, <2>1, CountsStay DEF SwapWindow
<1>5. ~stores_late => ReportsAt(a)'
  BY <1>1, <1>2, UIMoves, StoreWindow DEF SwapWindow, ReportsAt, UIAt, UIPlaces, TypeOK, Pipeline, Window
<1>6. QED
  BY <1>1, <1>2, <1>3, <1>4, <1>5, UIMoves, StoreWindow, UIStep
  DEF SwapWindow, UIAt, Stopped, UIPlaces, TypeOK, Others, Pipeline, Window

LEMMA CheckLoopKeeps == ASSUME IInv, NEW a \in Activities, CheckMainLoop(a) PROVE IInv'
<1>1. /\ TypeOK /\ InCall /\ Built(a) /\ References /\ (~stores_late => ReportsAt(a))
      /\ ui.at = "check" /\ ui.activity = a /\ data[a].memory = "live"
  BY UIKnows DEF CheckMainLoop, UIPlaces
<1>2. \/ LoopCreated(a) /\ UIGoes("inform") /\ ui'.at = "inform" /\ ui'.activity = a
      \/ ~LoopCreated(a) /\ UIReturns /\ ui'.at = "idle"
  BY <1>1, UIMoves, UIEnds DEF CheckMainLoop, UIPlaces
<1>3. app' = app /\ fixed' = fixed
      /\ ui' \in [at : UIPlaces, activity : Activities \cup {NoThread}, window : Window]
  BY <1>1, <1>2, UIMoves, UIEnds DEF UIPlaces
<1>4. InCall'
  BY <1>1, <1>2, <1>3 DEF CheckMainLoop, LoopCreated, InCall, Built, Stopped, UIAt
<1>5. References'
  <2>1. \A b \in Activities : Counted(b)' = Counted(b)
    BY <1>1, <1>2 DEF CheckMainLoop, Counted, UIAt
  <2>2. QED
    BY <1>1, <2>1, CountsStay DEF CheckMainLoop
<1>6. ~stores_late => ReportsAt(a)'
  BY <1>1, <1>2, <1>3 DEF CheckMainLoop, LoopCreated, ReportsAt, Built, LoopPlaces, UIAt
<1>7. QED
  BY <1>1, <1>2, <1>3, <1>4, <1>5, <1>6, UIStep
  DEF CheckMainLoop, UIAt, Stopped, TypeOK, Others

LEMMA SinkInformedKeeps == ASSUME IInv, NEW a \in Activities, UIInformSink(a) PROVE IInv'
<1>1. /\ TypeOK /\ InCall /\ Built(a) /\ References /\ (~stores_late => ReportsAt(a))
      /\ ui.at = "inform" /\ ui.activity = a /\ data[a].memory = "live"
  BY UIKnows DEF UIInformSink, UIPlaces
<1>2. ui'.at = "play" /\ ui'.activity = a /\ app' = app /\ fixed' = fixed
  BY <1>1, UIMoves DEF UIInformSink, UIPlaces
<1>3. InCall'
  BY <1>1, <1>2, UIMoves DEF UIInformSink, InCall, UIAt, UIPlaces, TypeOK, Pipeline, Window
<1>4. References'
  <2>1. \A b \in Activities : Counted(b)' = Counted(b)
    BY <1>1, <1>2, UIMoves DEF UIInformSink, Counted, UIAt, Others, TypeOK, Pipeline, Window
  <2>2. QED
    BY <1>1, <2>1, CountsStay DEF UIInformSink
<1>5. ~stores_late => ReportsAt(a)'
  BY <1>1, <1>2, UIMoves DEF UIInformSink, ReportsAt, UIAt, UIPlaces, TypeOK, Pipeline, Window
<1>6. QED
  BY <1>1, <1>2, <1>3, <1>4, <1>5, UIMoves, UIStep
  DEF UIInformSink, UIAt, Stopped, UIPlaces, TypeOK, Others, Pipeline, Window, CustomData

LEMMA PlayKeeps == ASSUME IInv, NEW a \in Activities, UIInitialized(a) PROVE IInv'
<1>1. /\ TypeOK /\ InCall /\ Built(a) /\ References /\ (~stores_late => ReportsAt(a))
      /\ ui.at = "play" /\ ui.activity = a /\ data[a].memory = "live"
  BY UIKnows DEF UIInitialized, UIPlaces
<1>2. ui'.at = "idle" /\ app' = app /\ fixed' = fixed
  BY <1>1, UIEnds DEF UIInitialized, UIPlaces
<1>3. InCall'
  BY <1>1, <1>2, UIEnds, StoreState DEF UIInitialized, InCall, UIAt, UIPlaces, TypeOK, Pipeline, Window
<1>4. References'
  <2>1. \A b \in Activities : Counted(b)' = Counted(b)
    BY <1>1, <1>2, UIEnds, StoreState DEF UIInitialized, Counted, UIAt, Others, TypeOK, Pipeline, Window
  <2>2. QED
    BY <1>1, <2>1, CountsStay DEF UIInitialized
<1>5. ~stores_late => ReportsAt(a)'
  BY <1>1, <1>2, UIEnds, StoreState DEF UIInitialized, ReportsAt, UIAt, UIPlaces, TypeOK, Pipeline, Window
<1>6. QED
  BY <1>1, <1>2, <1>3, <1>4, <1>5, UIEnds, StoreState, UIStep
  DEF UIInitialized, UIAt, Stopped, UIPlaces, TypeOK, Others, Pipeline, Window

LEMMA HideKeeps == ASSUME IInv, NEW a \in Activities, HideWindow(a) PROVE IInv'
<1>1. /\ TypeOK /\ InCall /\ Built(a) /\ References /\ (~stores_late => ReportsAt(a))
      /\ ui.at = "hide" /\ ui.activity = a /\ data[a].memory = "live"
  BY UIKnows DEF HideWindow, UIPlaces
<1>2. ui'.at = "stop" /\ ui'.activity = a /\ app' = app /\ fixed' = fixed
  BY <1>1, UIMoves DEF HideWindow, UIPlaces
<1>3. InCall'
  BY <1>1, <1>2, UIMoves DEF HideWindow, InCall, UIAt, UIPlaces, TypeOK, Pipeline, Window
<1>4. References'
  <2>1. \A b \in Activities : Counted(b)' = Counted(b)
    BY <1>1, <1>2, UIMoves DEF HideWindow, Counted, UIAt, Others, TypeOK, Pipeline, Window
  <2>2. QED
    BY <1>1, <2>1, CountsStay DEF HideWindow
<1>5. ~stores_late => ReportsAt(a)'
  BY <1>1, <1>2, UIMoves DEF HideWindow, ReportsAt, UIAt, UIPlaces, TypeOK, Pipeline, Window
<1>6. QED
  BY <1>1, <1>2, <1>3, <1>4, <1>5, UIMoves, UIStep
  DEF HideWindow, UIAt, Stopped, UIPlaces, TypeOK, Others, Pipeline, Window

LEMMA StopKeeps == ASSUME IInv, NEW a \in Activities, StopPipeline(a) PROVE IInv'
<1>1. /\ TypeOK /\ InCall /\ Built(a) /\ References /\ (~stores_late => ReportsAt(a))
      /\ ui.at = "stop" /\ ui.activity = a /\ data[a].memory = "live"
  BY UIKnows DEF StopPipeline, UIPlaces
<1>2. ui'.at = "release" /\ ui'.activity = a /\ app' = app /\ fixed' = fixed
  BY <1>1, UIMoves DEF StopPipeline, UIPlaces
<1>3. InCall'
  BY <1>1, <1>2, UIMoves, StoreState DEF StopPipeline, InCall, UIAt, UIPlaces, TypeOK, Pipeline, Window
<1>4. References'
  <2>1. \A b \in Activities : Counted(b)' = Counted(b)
    BY <1>1, <1>2, UIMoves, StoreState DEF StopPipeline, Counted, UIAt, Others, TypeOK, Pipeline, Window
  <2>2. QED
    BY <1>1, <2>1, CountsStay DEF StopPipeline
<1>5. ~stores_late => ReportsAt(a)'
  BY <1>1, <1>2, UIMoves, StoreState DEF StopPipeline, ReportsAt, UIAt, UIPlaces, TypeOK, Pipeline, Window
<1>6. QED
  BY <1>1, <1>2, <1>3, <1>4, <1>5, UIMoves, StoreState, UIStep
  DEF StopPipeline, UIAt, Stopped, UIPlaces, TypeOK, Others, Pipeline, Window

LEMMA ReleaseKeeps == ASSUME IInv, NEW a \in Activities, ReleaseWindow(a) PROVE IInv'
<1>1. /\ TypeOK /\ InCall /\ Built(a) /\ References /\ (~stores_late => ReportsAt(a))
      /\ ui.at = "release" /\ ui.activity = a /\ data[a].memory = "live"
  BY UIKnows DEF ReleaseWindow, UIPlaces
<1>2. ui'.at = "forget" /\ ui'.activity = a /\ app' = app /\ fixed' = fixed
  BY <1>1, UIMoves DEF ReleaseWindow, UIPlaces
<1>3. InCall'
  BY <1>1, <1>2, UIMoves DEF ReleaseWindow, InCall, UIAt, UIPlaces, TypeOK, Pipeline, Window
<1>4. References'
  <2>1. Counted(a) = data[a].native_window /\ data[a].native_window \in Windows
    BY <1>1 DEF InCall, Counted, UIAt
  <2>2. Counted(a)' = NoWindow /\ \A b \in Activities \ {a} : Counted(b)' = Counted(b)
    BY <1>1, <1>2 DEF ReleaseWindow, Counted, UIAt
  <2>3. refs[data[a].native_window] = 1
    BY <1>1, <2>1 DEF References
  <2>4. \A x \in Windows : refs'[x] = IF x = Counted(a) THEN 0 ELSE refs[x]
    BY <1>1, <2>1, <2>3 DEF ReleaseWindow, TypeOK
  <2>5. QED
    BY <1>1, <2>2, <2>4, CountMoves, PlaybackAssumption DEF Window
<1>5. ~stores_late => ReportsAt(a)'
  BY <1>1, <1>2, UIMoves DEF ReleaseWindow, ReportsAt, UIAt, UIPlaces, TypeOK, Pipeline, Window
<1>6. refs' \in [Windows -> 0..1]
  <2>1. Counted(a) = data[a].native_window /\ data[a].native_window \in Windows
    BY <1>1 DEF InCall, Counted, UIAt
  <2>2. refs[data[a].native_window] = 1
    BY <1>1, <2>1 DEF References
  <2>3. \A x \in Windows : refs'[x] = IF x = Counted(a) THEN 0 ELSE refs[x]
    BY <1>1, <2>1, <2>2 DEF ReleaseWindow, TypeOK
  <2>4. \A x \in Windows : refs[x] \in 0..1
    BY <1>1 DEF TypeOK
  <2>5. \A x \in Windows : refs'[x] \in 0..1
    BY <2>3, <2>4
  <2>6. refs' = [x \in Windows |-> refs'[x]]
    BY <1>1 DEF ReleaseWindow, TypeOK
  <2>7. QED
    BY <2>5, <2>6
<1>7. QED
  BY <1>1, <1>2, <1>3, <1>4, <1>5, <1>6, UIMoves, UIStep
  DEF ReleaseWindow, UIAt, Stopped, UIPlaces, TypeOK, Others, Pipeline, Window

LEMMA ForgetWindowKeeps == ASSUME IInv, NEW a \in Activities, ForgetWindow(a) PROVE IInv'
<1>1. /\ TypeOK /\ InCall /\ Built(a) /\ References /\ (~stores_late => ReportsAt(a))
      /\ ui.at = "forget" /\ ui.activity = a /\ data[a].memory = "live"
  BY UIKnows DEF ForgetWindow, UIPlaces
<1>2. ui'.at = "idle" /\ app' = app /\ fixed' = fixed
  BY <1>1, UIEnds DEF ForgetWindow, UIPlaces
<1>3. InCall'
  BY <1>1, <1>2, UIEnds, StoreWindow DEF ForgetWindow, InCall, UIAt, UIPlaces, TypeOK, Pipeline, Window
<1>4. References'
  <2>1. \A b \in Activities : Counted(b)' = Counted(b)
    BY <1>1, <1>2, UIEnds, StoreWindow DEF ForgetWindow, Counted, UIAt, Others, TypeOK, Pipeline, Window
  <2>2. QED
    BY <1>1, <2>1, CountsStay DEF ForgetWindow
<1>5. ~stores_late => ReportsAt(a)'
  BY <1>1, <1>2, UIEnds, StoreWindow DEF ForgetWindow, ReportsAt, UIAt, UIPlaces, TypeOK, Pipeline, Window
<1>6. QED
  BY <1>1, <1>2, <1>3, <1>4, <1>5, UIEnds, StoreWindow, UIStep
  DEF ForgetWindow, UIAt, Stopped, UIPlaces, TypeOK, Others, Pipeline, Window

LEMMA QuitKeeps == ASSUME IInv, NEW a \in Activities, Quit(a) PROVE IInv'
<1>1. /\ TypeOK /\ InCall /\ Built(a) /\ References /\ (~stores_late => ReportsAt(a))
      /\ ui.at = "quit" /\ ui.activity = a /\ data[a].memory = "live"
  BY UIKnows DEF Quit, UIPlaces
<1>2. ui'.at = "join" /\ ui'.activity = a /\ app' = app /\ fixed' = fixed
  BY <1>1, UIMoves DEF Quit, UIPlaces
<1>3. InCall'
  BY <1>1, <1>2, UIMoves DEF Quit, InCall, UIAt, UIPlaces, TypeOK, Pipeline, Window
<1>4. References'
  <2>1. \A b \in Activities : Counted(b)' = Counted(b)
    BY <1>1, <1>2, UIMoves DEF Quit, Counted, UIAt, Others, TypeOK, Pipeline, Window
  <2>2. QED
    BY <1>1, <2>1, CountsStay DEF Quit
<1>5. ~stores_late => ReportsAt(a)'
  BY <1>1, <1>2, UIMoves DEF Quit, ReportsAt, UIAt, UIPlaces, TypeOK, Pipeline, Window
<1>6. QED
  BY <1>1, <1>2, <1>3, <1>4, <1>5, UIMoves, UIStep
  DEF Quit, UIAt, Stopped, UIPlaces, TypeOK, Others, Pipeline, Window, QuitLoop

LEMMA JoinKeeps == ASSUME IInv, NEW a \in Activities, Join(a) PROVE IInv'
<1>1. /\ TypeOK /\ InCall /\ Built(a) /\ References /\ (~stores_late => ReportsAt(a))
      /\ ui.at = "join" /\ ui.activity = a /\ data[a].memory = "live"
  BY UIKnows DEF Join, UIPlaces
<1>2. ui'.at = "free" /\ ui'.activity = a /\ app' = app /\ fixed' = fixed
  BY <1>1, UIMoves DEF Join, UIPlaces
<1>3. InCall'
  BY <1>1, <1>2, UIMoves DEF Join, InCall, UIAt, UIPlaces, TypeOK, Pipeline, Window
<1>4. References'
  <2>1. \A b \in Activities : Counted(b)' = Counted(b)
    BY <1>1, <1>2, UIMoves DEF Join, Counted, UIAt, Others, TypeOK, Pipeline, Window
  <2>2. QED
    BY <1>1, <2>1, CountsStay DEF Join
<1>5. ~stores_late => ReportsAt(a)'
  BY <1>1, <1>2, UIMoves DEF Join, ReportsAt, UIAt, UIPlaces, TypeOK, Pipeline, Window
<1>6. ~overtaken[a] => AppAt(a, "done")
  BY <1>1, PlaybackAssumption DEF Join, ThreadDone, AppAt, IInv, Joined
<1>7. QED
  BY <1>1, <1>2, <1>3, <1>4, <1>5, <1>6, UIMoves, UIStep
  DEF Join, UIAt, Stopped, UIPlaces, TypeOK, Others, Pipeline, Window

LEMMA FreeKeeps == ASSUME IInv, NEW a \in Activities, FreeData(a) PROVE IInv'
<1>1. /\ TypeOK /\ InCall /\ Built(a) /\ References /\ (~stores_late => ReportsAt(a))
      /\ ui.at = "free" /\ ui.activity = a /\ data[a].memory = "live"
  BY UIKnows DEF FreeData, UIPlaces
<1>2. ui'.at = "idle" /\ app' = app /\ fixed' = fixed
  BY <1>1, UIEnds DEF FreeData, UIPlaces
<1>3. InCall'
  BY <1>1, <1>2, UIEnds, StoreMemory DEF FreeData, InCall, UIAt, UIPlaces, TypeOK, Pipeline, Window
<1>4. References'
  <2>1. \A b \in Activities : Counted(b)' = Counted(b)
    BY <1>1, <1>2, UIEnds, StoreMemory DEF FreeData, Counted, UIAt, Others, TypeOK, Pipeline, Window
  <2>2. QED
    BY <1>1, <2>1, CountsStay DEF FreeData
<1>5. ~stores_late => ReportsAt(a)'
  BY <1>1, <1>2, UIEnds, StoreMemory DEF FreeData, ReportsAt, UIAt, UIPlaces, TypeOK, Pipeline, Window
<1>6. ~overtaken[a] => AppAt(a, "done")
  BY <1>1 DEF UIAt, IInv, Joined
<1>7. QED
  BY <1>1, <1>2, <1>3, <1>4, <1>5, <1>6, UIEnds, StoreMemory, UIStep
  DEF FreeData, UIAt, Stopped, UIPlaces, TypeOK, Others, Pipeline, Window

-----------------------------------------------------------------------------
(***************************************************************************)
(* Android's callbacks, and stores that become visible.                    *)
(***************************************************************************)
\* What is known between native calls.
LEMMA IdleKnows ==
  ASSUME IInv, NEW a \in Activities, ui.at = "idle", data[a].memory = "live"
  PROVE  /\ TypeOK /\ Built(a) /\ References /\ (~stores_late => ReportsAt(a))
         /\ \A b \in Activities : Counted(b) = data[b].native_window
         /\ ~Stopped(a) /\ \A place \in UIPlaces \ {"idle"} : ~UIAt(a, place)
BY DEF IInv, Reports, Counted, UIAt, Stopped

LEMMA FirstWindowKeeps ==
  ASSUME IInv, NEW a \in Activities, NEW w \in Windows, surfaceChanged(a, w),
         data[a].native_window = NoWindow
  PROVE  IInv'
<1>1. /\ TypeOK /\ Built(a) /\ References /\ (~stores_late => ReportsAt(a))
      /\ \A b \in Activities : Counted(b) = data[b].native_window
      /\ ~Stopped(a) /\ ui.at = "idle" /\ data[a].memory = "live"
  BY IdleKnows DEF surfaceChanged
<1>2. /\ SetNativeWindow(a, w) /\ refs' = [refs EXCEPT ![w] = @ + 1]
      /\ reported' = [reported EXCEPT ![a] = FALSE]
      /\ ui' = [at |-> "check", activity |-> a, window |-> w]
  BY PlaybackAssumption DEF surfaceChanged
<1>3. w \in Window /\ app' = app /\ fixed' = fixed /\ ui'.at = "check" /\ ui'.activity = a
  BY <1>2 DEF surfaceChanged, Window, fixed
<1>4. InCall'
  BY <1>1, <1>2, <1>3, StoreWindow DEF InCall
<1>5. \A b \in Activities : Counted(b) # w
  BY <1>1, PlaybackAssumption DEF surfaceChanged, References
<1>6. refs[w] = 0 /\ refs' \in [Windows -> 0..1]
  <2>1. refs[w] = 0
    BY <1>1, <1>5 DEF References
  <2>2. refs' = [refs EXCEPT ![w] = 1]
    BY <1>2, <2>1
  <2>3. QED
    BY <1>1, <2>1, <2>2 DEF TypeOK
<1>7. References'
  <2>1. Counted(a)' = w
    BY <1>1, <1>2, <1>3, StoreWindow DEF Counted, UIAt
  <2>2. \A b \in Activities \ {a} : Counted(b)' = Counted(b)
    BY <1>1, <1>2, <1>3, StoreWindow DEF Counted, UIAt, Others
  <2>3. \A x \in Windows : refs'[x] = IF x = w THEN 1 ELSE IF x = Counted(a) THEN 0 ELSE refs[x]
    BY <1>1, <1>2, <1>6, PlaybackAssumption DEF TypeOK
  <2>4. QED
    BY <1>1, <1>3, <1>5, <2>1, <2>2, <2>3, CountMoves
<1>8. ~stores_late => ReportsAt(a)'
  BY <1>1, <1>2, <1>3, StoreWindow DEF ReportsAt, UIAt
<1>9. QED
  BY <1>1, <1>2, <1>3, <1>4, <1>6, <1>7, <1>8, StoreWindow, UIStep
  DEF surfaceChanged, UIAt, UIPlaces, TypeOK

LEMMA SameWindowKeeps ==
  ASSUME IInv, NEW a \in Activities, NEW w \in Windows, surfaceChanged(a, w),
         data[a].native_window = w
  PROVE  IInv'
<1>1. UNCHANGED <<data, seen, ui, past, is_running, sink_window, app, fixed, refs>>
  BY PlaybackAssumption DEF surfaceChanged, KeepOneReference
<1>2. UNCHANGED vars
  BY <1>1 DEF vars, threads
<1>3. QED
  BY <1>2 DEF IInv, vars, threads, fixed, TypeOK, InCall, Built, References, Joined, Leaks, Reports,
              ReportsAt, Counted, UIAt, AppAt, Stopped

LEMMA OtherWindowKeeps ==
  ASSUME IInv, NEW a \in Activities, NEW w \in Windows, surfaceChanged(a, w),
         data[a].native_window \in Windows \ {w}
  PROVE  IInv'
<1> DEFINE old == data[a].native_window
<1>1. /\ TypeOK /\ Built(a) /\ References /\ (~stores_late => ReportsAt(a))
      /\ \A b \in Activities : Counted(b) = data[b].native_window
      /\ ~Stopped(a) /\ ui.at = "idle" /\ data[a].memory = "live"
      /\ \A place \in UIPlaces \ {"idle"} : ~UIAt(a, place)
  BY IdleKnows DEF surfaceChanged
<1>2. /\ refs' = [refs EXCEPT ![old] = @ - 1, ![w] = @ + 1]
      /\ ui' = [at |-> "clear", activity |-> a, window |-> w]
      /\ UNCHANGED <<data, seen, reported>>
  BY PlaybackAssumption DEF surfaceChanged
<1>3. w \in Window /\ app' = app /\ fixed' = fixed /\ ui'.at = "clear" /\ ui'.activity = a
  BY <1>2 DEF surfaceChanged, Window, fixed
<1>4. InCall'
  BY <1>1, <1>2, <1>3 DEF InCall
<1>5. \A b \in Activities : Counted(b) # w
  BY <1>1 DEF surfaceChanged, References
<1>6. refs[w] = 0 /\ refs[old] = 1
  BY <1>1, <1>5 DEF References
<1>7. refs' = [[refs EXCEPT ![old] = 0] EXCEPT ![w] = 1]
  BY <1>2, <1>6
<1>8. References'
  <2>1. Counted(a)' = w
    BY <1>2 DEF Counted, UIAt
  <2>2. \A b \in Activities \ {a} : Counted(b)' = Counted(b)
    BY <1>1, <1>2, <1>3 DEF Counted, UIAt
  <2>3. \A x \in Windows : refs'[x] = IF x = w THEN 1 ELSE IF x = Counted(a) THEN 0 ELSE refs[x]
    BY <1>1, <1>7 DEF TypeOK
  <2>4. QED
    BY <1>1, <1>3, <1>5, <2>1, <2>2, <2>3, CountMoves
<1>9. ~stores_late => ReportsAt(a)'
  BY <1>1, <1>2, <1>3 DEF ReportsAt, UIAt, UIPlaces
<1>10. refs' \in [Windows -> 0..1]
  BY <1>1, <1>7 DEF TypeOK
<1>11. QED
  BY <1>1, <1>2, <1>3, <1>4, <1>8, <1>9, <1>10, UIStep
  DEF surfaceChanged, UIAt, UIPlaces, TypeOK, Others

LEMMA SurfaceDestroyedKeeps == ASSUME IInv, NEW a \in Activities, surfaceDestroyed(a) PROVE IInv'
<1>1. /\ TypeOK /\ Built(a) /\ References /\ (~stores_late => ReportsAt(a))
      /\ \A b \in Activities : Counted(b) = data[b].native_window
      /\ ~Stopped(a) /\ ui.at = "idle" /\ data[a].memory = "live"
      /\ \A place \in UIPlaces \ {"idle"} : ~UIAt(a, place)
  BY IdleKnows DEF surfaceDestroyed
<1>2. /\ ui'.at \in {"hide", "release"} /\ ui'.activity = a /\ app' = app /\ fixed' = fixed
      /\ ui' \in [at : UIPlaces, activity : Activities \cup {NoThread}, window : Window]
  BY DEF surfaceDestroyed, fixed, UIPlaces, Window
<1>3. InCall'
  BY <1>1, <1>2 DEF surfaceDestroyed, InCall, TypeOK, CustomData, Window
<1>4. References'
  <2>1. \A b \in Activities : Counted(b)' = Counted(b)
    BY <1>1, <1>2 DEF surfaceDestroyed, Counted, UIAt
  <2>2. QED
    BY <1>1, <2>1, CountsStay DEF surfaceDestroyed
<1>5. ~stores_late => ReportsAt(a)'
  BY <1>1, <1>2 DEF surfaceDestroyed, ReportsAt, UIAt, UIPlaces
<1>6. QED
  BY <1>1, <1>2, <1>3, <1>4, <1>5, UIStep DEF surfaceDestroyed, UIAt, TypeOK, Others

LEMMA OnDestroyKeeps == ASSUME IInv, NEW a \in Activities, onDestroy(a) PROVE IInv'
<1>1. /\ TypeOK /\ Built(a) /\ References /\ (~stores_late => ReportsAt(a))
      /\ \A b \in Activities : Counted(b) = data[b].native_window
      /\ ~Stopped(a) /\ ui.at = "idle" /\ data[a].memory = "live"
      /\ \A place \in UIPlaces \ {"idle"} : ~UIAt(a, place)
  BY IdleKnows DEF onDestroy
<1>2. /\ ui'.at = "quit" /\ ui'.activity = a /\ app' = app /\ fixed' = fixed
      /\ ui' \in [at : UIPlaces, activity : Activities \cup {NoThread}, window : Window]
  BY DEF onDestroy, fixed, UIPlaces, Window
<1>3. InCall'
  BY <1>1, <1>2 DEF onDestroy, InCall
<1>4. References'
  <2>1. \A b \in Activities : Counted(b)' = Counted(b)
    BY <1>1, <1>2 DEF onDestroy, Counted, UIAt
  <2>2. QED
    BY <1>1, <2>1, CountsStay DEF onDestroy
<1>5. ~stores_late => ReportsAt(a)'
  BY <1>1, <1>2 DEF onDestroy, ReportsAt, UIAt, UIPlaces
<1>6. QED
  BY <1>1, <1>2, <1>3, <1>4, <1>5, UIStep DEF onDestroy, UIAt, TypeOK, Others

LEMMA OnCreateKeeps == ASSUME IInv, NEW a \in Activities, onCreate(a) PROVE IInv'
<1>1. /\ TypeOK /\ ui.at = "idle" /\ data[a].memory = "none" /\ AppAt(a, "none")
  BY DEF IInv, onCreate, Built
<1>2. /\ data' \in [Activities -> CustomData] /\ Others(a) /\ data'[a].memory = "live"
      /\ data'[a].main_loop = data[a].main_loop
      /\ \A b \in Activities : data'[b].native_window = data[b].native_window
  BY <1>1, StoreMemory DEF onCreate, TypeOK, Others
<1>3. /\ app'[a].at = "parse" /\ \A b \in Activities \ {a} : app'[b] = app[b]
      /\ app' \in [Activities -> [at : AppPlaces, window : Window]]
  <2>1. app[a] \in [at : AppPlaces, window : Window]
    BY <1>1 DEF TypeOK
  <2>2. app'[a] = [app[a] EXCEPT !.at = "parse"]
    BY <1>1 DEF onCreate, TypeOK
  <2>3. app'[a] \in [at : AppPlaces, window : Window] /\ app'[a].at = "parse"
    BY <2>1, <2>2 DEF AppPlaces
  <2>4. QED
    BY <1>1, <2>3 DEF onCreate, TypeOK
<1>4. ui' = ui /\ gst_app_thread' = a
      /\ UNCHANGED <<seen, is_running, sink_window, refs, stores_late, reported, leaked>>
  BY DEF onCreate, NewThread
<1>5. TypeOK'
  <2>1. overtaken' \in [Activities -> BOOLEAN]
    BY <1>1 DEF onCreate, TypeOK
  <2>2. QED
    BY <1>1, <1>2, <1>3, <1>4, <2>1 DEF TypeOK
<1>6. InCall'
  BY <1>1, <1>4 DEF InCall
<1>7. ASSUME NEW b \in Activities PROVE Built(b)'
  <2>1. CASE b = a
    BY <1>1, <1>2, <1>3, <1>4, <2>1 DEF IInv, Built, Stopped, UIAt, AppAt, LoopPlaces
  <2>2. CASE b # a
    BY <1>2, <1>3, <1>4, <2>2 DEF IInv, Built, Stopped, UIAt, AppAt, Others
  <2>3. QED
    BY <2>1, <2>2
<1>8. References'
  <2>1. \A b \in Activities : Counted(b)' = Counted(b)
    BY <1>2, <1>4 DEF Counted, UIAt
  <2>2. QED
    BY <1>4, <2>1, CountsStay DEF IInv
<1>9. Joined'
  <2>1. \A b \in Activities : overtaken'[b] = (overtaken[b] \/ b \in Alive)
    BY DEF onCreate
  <2>2. \A b \in Activities \ {a} : ~overtaken'[b] => ~overtaken[b] /\ data'[b].memory # "live"
    BY <1>2, <2>1 DEF Alive, Others
  <2>3. QED
    BY <1>1, <1>2, <1>3, <1>4, <2>2 DEF IInv, Joined, UIAt, AppAt, Others
<1>10. Leaks'
  BY <1>1, <1>2, <1>4 DEF IInv, Leaks, Others
<1>11. Reports'
  BY <1>1, <1>2, <1>3, <1>4 DEF IInv, Reports, ReportsAt, UIAt, Others
<1>12. QED
  BY <1>5, <1>6, <1>7, <1>8, <1>9, <1>10, <1>11 DEF IInv

LEMMA DrainKeeps == ASSUME IInv, NEW a \in Activities, Drain(a) PROVE IInv'
<1>1. data[a] \in CustomData /\ seen[a] \in Signals
  BY DEF IInv, TypeOK
<1>2. UNCHANGED <<data, is_running, sink_window, refs, app, ui, gst_app_thread, stores_late, past>>
  BY DEF Drain, threads, fixed
<1>3. /\ seen' \in [Activities -> Signals] /\ \A b \in Activities \ {a} : seen'[b] = seen[b]
      /\ seen'[a].main_loop \in {seen[a].main_loop, data[a].main_loop}
  <2>1. CASE seen' = [seen EXCEPT ![a].main_loop = data[a].main_loop]
    <3>1. seen'[a] = [seen[a] EXCEPT !.main_loop = data[a].main_loop]
      BY <2>1 DEF IInv, TypeOK
    <3>2. seen'[a] \in Signals /\ seen'[a].main_loop = data[a].main_loop
      BY <1>1, <3>1 DEF Signals, CustomData
    <3>3. QED
      BY <2>1, <3>2 DEF IInv, TypeOK
  <2>2. CASE seen' = [seen EXCEPT ![a].native_window = data[a].native_window]
    <3>1. seen'[a] = [seen[a] EXCEPT !.native_window = data[a].native_window]
      BY <2>2 DEF IInv, TypeOK
    <3>2. seen'[a] \in Signals /\ seen'[a].main_loop = seen[a].main_loop
      BY <1>1, <3>1 DEF Signals, CustomData
    <3>3. QED
      BY <2>2, <3>2 DEF IInv, TypeOK
  <2>3. QED
    BY <2>1, <2>2 DEF Drain
<1>4. stores_late
  <2>1. SUFFICES ASSUME ~stores_late PROVE FALSE
    OBVIOUS
  <2>2. /\ seen[a].main_loop = data[a].main_loop
        /\ seen[a].native_window = data[a].native_window
    BY <2>1 DEF IInv, Reports, ReportsAt
  <2>3. seen[a] = [main_loop |-> data[a].main_loop, native_window |-> data[a].native_window]
    BY <1>1, <2>2 DEF Signals
  <2>4. QED
    BY <2>3 DEF Drain
<1>5. TypeOK'
  BY <1>2, <1>3 DEF IInv, TypeOK
<1>6. ASSUME NEW b \in Activities PROVE Built(b)'
  BY <1>2, <1>3 DEF IInv, Built, AppAt, Stopped, UIAt
<1>7. InCall' /\ References' /\ Joined' /\ Leaks'
  BY <1>2 DEF IInv, InCall, References, Joined, Leaks, Counted, UIAt, AppAt
<1>8. Reports'
  BY <1>2, <1>4 DEF Reports
<1>9. QED
  BY <1>5, <1>6, <1>7, <1>8 DEF IInv

-----------------------------------------------------------------------------
(***************************************************************************)
(* The theorems.                                                           *)
(***************************************************************************)
LEMMA InitIInv == Init => IInv
<1> SUFFICES ASSUME Init PROVE IInv
  OBVIOUS
<1>1. TypeOK
  BY DEF Init, TypeOK, CustomData, Signals, Pipeline, Window, AppPlaces, UIPlaces, Idle
<1>2. InCall /\ Joined /\ Leaks
  BY DEF Init, InCall, Joined, Leaks, Idle, UIAt
<1>3. \A a \in Activities : Built(a)
  BY DEF Init, Built, AppAt, LoopPlaces
<1>4. References
  BY PlaybackAssumption DEF Init, References, Counted, UIAt, Idle
<1>5. Reports
  BY DEF Init, Reports, ReportsAt
<1>6. QED
  BY <1>1, <1>2, <1>3, <1>4, <1>5 DEF IInv

LEMMA NextIInv == IInv /\ [Next]_vars => IInv'
<1> SUFFICES ASSUME IInv, [Next]_vars PROVE IInv'
  OBVIOUS
<1>1. CASE UNCHANGED vars
  BY <1>1 DEF IInv, vars, threads, fixed, TypeOK, InCall, Built, References, Joined, Leaks, Reports,
              ReportsAt, Counted, UIAt, AppAt, Stopped
<1>2. ASSUME NEW a \in Activities, app_function(a) \/ error_cb(a)
      PROVE  IInv'
  BY <1>2, ParseKeeps, ReadyKeeps, SinkKeeps, LoopKeeps, CheckKeeps, ReadKeeps, InformKeeps,
     InitializedKeeps, RunKeeps, ErrorKeeps, ExitKeeps, ForgetLoopKeeps, UnrefKeeps
  DEF app_function
<1>3. ASSUME NEW a \in Activities, native_call(a)
      PROVE  IInv'
  BY <1>3, ClearKeeps, SwapKeeps, CheckLoopKeeps, SinkInformedKeeps, PlayKeeps, HideKeeps,
     StopKeeps, ReleaseKeeps, ForgetWindowKeeps, QuitKeeps, JoinKeeps, FreeKeeps
  DEF native_call
<1>4. ASSUME NEW a \in Activities, NEW w \in Windows, surfaceChanged(a, w)
      PROVE  IInv'
  <2>1. data[a].native_window = NoWindow \/ data[a].native_window = w
          \/ data[a].native_window \in Windows \ {w}
    BY <1>4 DEF surfaceChanged
  <2>2. QED
    BY <1>4, <2>1, FirstWindowKeeps, SameWindowKeeps, OtherWindowKeeps
<1>5. ASSUME NEW a \in Activities, Callback(a) \/ Drain(a)
      PROVE  IInv'
  BY <1>4, <1>5, OnCreateKeeps, SurfaceDestroyedKeeps, OnDestroyKeeps, DrainKeeps DEF Callback
<1>6. QED
  BY <1>1, <1>2, <1>3, <1>5 DEF Next

\* However the threads interleave, the fields hold what Built, References and
\* Reports say.
THEOREM Invariant == Spec => []IInv
<1>1. Init => IInv
  BY InitIInv
<1>2. IInv /\ [Next]_vars => IInv'
  BY NextIInv
<1>3. QED
  BY <1>1, <1>2, PTL DEF Spec

\* Every field keeps its type; no window has more than one reference.
THEOREM TypeCorrect == Spec => []TypeOK
<1>1. IInv => TypeOK
  BY DEF IInv
<1>2. QED
  BY <1>1, Invariant, PTL

\* Whichever thread calls back, the pipeline and its sink are there.
THEOREM PipelineThere == Spec => []InitializedAfterPipeline
<1>1. IInv => InitializedAfterPipeline
  <2> SUFFICES ASSUME IInv, NEW a \in Activities,
                      AppAt(a, "inform") \/ AppAt(a, "initialized") \/ UIAt(a, "inform") \/ UIAt(a, "play")
               PROVE  data[a].pipeline # "none" /\ data[a].video_sink
    BY DEF InitializedAfterPipeline, Alive
  <2>1. app[a].at \in LoopPlaces
    BY DEF IInv, InCall, UIAt, AppAt, LoopPlaces
  <2>2. QED
    BY <2>1 DEF IInv, Built
<1>2. QED
  BY <1>1, Invariant, PTL

\* Between callbacks the references are those of the windows of activities that
\* are alive, and those that nativeFinalize has left behind.
THEOREM ReferencesBalanced == Spec => []WindowRefsBalanced
<1>1. IInv => WindowRefsBalanced
  <2> SUFFICES ASSUME IInv, ui.at = "idle", NEW w \in Windows
               PROVE  refs[w] = Cardinality({a \in Alive : data[a].native_window = w})
                                + (IF w \in leaked THEN 1 ELSE 0)
    BY DEF WindowRefsBalanced
  <2> DEFINE Own == {a \in Alive : data[a].native_window = w}
  <2>0. Cardinality({}) = 0
    BY FS_EmptySet
  <2>1. \A a \in Activities : Counted(a) = data[a].native_window
    BY DEF Counted, UIAt
  <2>2. CASE \E a \in Activities : Counted(a) = w
    <3>1. PICK a \in Activities : Counted(a) = w
      BY <2>2
    <3>2. \A b \in Activities : data[b].native_window = w => b = a
      BY <2>1, <3>1, PlaybackAssumption DEF IInv, References
    <3>3. refs[w] = 1 /\ data[a].native_window = w
      BY <2>1, <3>1 DEF IInv, References
    <3>4. data[a].memory \in {"live", "freed"}
      BY <3>3, PlaybackAssumption DEF IInv, Leaks, TypeOK, CustomData
    <3>5. CASE data[a].memory = "live"
      <4>1. Own = {a}
        BY <3>2, <3>3, <3>5 DEF Alive
      <4>2. w \notin leaked
        BY <3>2, <3>5 DEF IInv, Leaks
      <4>3. Cardinality({a}) = 1
        BY FS_Singleton
      <4>4. Cardinality(Own) = 1 /\ (IF w \in leaked THEN 1 ELSE 0) = 0
        BY <4>1, <4>2, <4>3
      <4>5. QED
        BY <3>3, <4>4
    <3>6. CASE data[a].memory = "freed"
      <4>1. Own = {}
        BY <3>2, <3>6 DEF Alive
      <4>2. w \in leaked
        BY <3>3, <3>6 DEF IInv, Leaks
      <4>3. Cardinality(Own) = 0 /\ (IF w \in leaked THEN 1 ELSE 0) = 1
        BY <2>0, <4>1, <4>2
      <4>4. QED
        BY <3>3, <4>3
    <3>7. QED
      BY <3>4, <3>5, <3>6
  <2>3. CASE ~\E a \in Activities : Counted(a) = w
    <3>1. Own = {}
      BY <2>1, <2>3 DEF Alive
    <3>2. refs[w] = 0
      BY <2>3 DEF IInv, References
    <3>3. w \notin leaked
      BY <2>1, <2>3 DEF IInv, Leaks
    <3>4. Cardinality(Own) = 0 /\ (IF w \in leaked THEN 1 ELSE 0) = 0
      BY <2>0, <3>1, <3>3
    <3>5. QED
      BY <3>2, <3>4
  <2>4. QED
    BY <2>2, <2>3
<1>2. QED
  BY <1>1, Invariant, PTL

\* With stores that are seen at once, the thread that comes last reports the
\* window and the loop.
THEOREM ReportedByLast == Spec => []InitializationReported
<1>1. IInv => InitializationReported
  BY DEF IInv, InitializationReported, Alive, Reports, ReportsAt, UIAt, AppAt
<1>2. QED
  BY <1>1, Invariant, PTL

\* Whatever number of activities: one beside which no other has been created
\* frees its data only after its own thread has ended.
THEOREM ThreadRemoved == Spec => []ThreadRemovedUnlessOvertaken
<1>1. IInv => ThreadRemovedUnlessOvertaken
  BY DEF IInv, Joined, ThreadRemovedUnlessOvertaken
<1>2. QED
  BY <1>1, Invariant, PTL
=============================================================================
