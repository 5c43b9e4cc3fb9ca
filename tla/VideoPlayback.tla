--------------------------- MODULE VideoPlayback ---------------------------
(***************************************************************************)
(* The life of a video activity (VideoPlaybackFull.java) and of its native *)
(* side (videoPlayback.cpp): the UI thread runs Android's callbacks and    *)
(* the native functions they call, and each activity has an app thread     *)
(* that builds the GStreamer pipeline and runs the GLib main loop.  The    *)
(* two share the fields of CustomData without a lock, so every access to a *)
(* shared field is a step of its own.                                      *)
(*                                                                         *)
(* GLib, GStreamer and ANativeWindow are external: g_main_loop_quit clears *)
(* is_running and does nothing to NULL, g_main_loop_run sets it, a window  *)
(* lives as long as it has references.  After nativeFinalize the native    *)
(* functions find native_custom_data NULL and return, so a call of them is *)
(* no step.                                                                *)
(*                                                                         *)
(* Android may create an activity before it destroys the one before it.    *)
(* The handle gst_app_thread is static, so the older one then joins the    *)
(* wrong thread, and may free its CustomData under its own. Such a thread  *)
(* goes on with the fields as they were, or stops for good; what else a    *)
(* use of freed memory may do is left out.                                 *)
(***************************************************************************)
EXTENDS Naturals, FiniteSets

CONSTANTS
  Activities,      \* the instances of VideoPlaybackFull
  Windows,         \* the native windows of the surfaces
  Surface,         \* Surface[a]: those the surface of a may have
  NoWindow, NoThread

ASSUME PlaybackAssumption ==
  /\ NoWindow \notin Windows /\ NoThread \notin Activities
  /\ Surface \in [Activities -> SUBSET Windows]

VARIABLES
  data,            \* data[a]: the CustomData of activity a
  seen,            \* seen[a]: its main_loop as the UI thread sees it, its native_window as the app thread does
  is_running,      \* is_running[a]: that of the GMainLoop of a
  sink_window,     \* sink_window[a]: the window handle video_sink has
  refs,            \* refs[w]: the references the native code holds on window w
  gst_app_thread,  \* the static thread handle: the activity whose thread it is
  app,             \* app[a]: where the app thread of a is, and the window it is about to pass on
  ui,              \* where the UI thread is, in a call for which activity and window
  stores_late,     \* may the other thread see a store of a shared field late?
  reported,        \* history: reported[a]: onGStreamerInitialized called since the window came
  overtaken,       \* history: overtaken[a]: another activity was created while a was alive
  leaked           \* history: the windows that were there when their CustomData was freed

fixed == <<gst_app_thread, stores_late>>     \* by every step but onCreate
threads == <<app, ui, fixed>>
past == <<reported, overtaken, leaked>>
vars == <<data, seen, is_running, sink_window, refs, threads, past>>

AppPlaces == {"none", "parse", "ready", "sink", "loop", "check", "argument", "inform",
              "initialized", "run", "dispatch", "cleanup", "unref", "done"}
UIPlaces  == {"idle", "clear", "swap", "check", "inform", "play",
              "hide", "stop", "release", "forget", "quit", "join", "free"}
Pipeline  == {"none", "NULL", "READY", "PLAYING"}    \* "none": the pointer is NULL
Window    == Windows \cup {NoWindow}

Idle == [at |-> "idle", activity |-> NoThread, window |-> NoWindow]

Init ==
  /\ data = [a \in Activities |->
               [memory |-> "none", pipeline |-> "none", video_sink |-> FALSE,
                main_loop |-> FALSE, native_window |-> NoWindow]]
  /\ seen = [a \in Activities |-> [main_loop |-> FALSE, native_window |-> NoWindow]]
  /\ is_running = [a \in Activities |-> FALSE]
  /\ sink_window = [a \in Activities |-> NoWindow]
  /\ refs = [w \in Windows |-> 0]
  /\ gst_app_thread = NoThread
  /\ app = [a \in Activities |-> [at |-> "none", window |-> NoWindow]]
  /\ ui = Idle
  /\ stores_late \in BOOLEAN
  /\ reported = [a \in Activities |-> FALSE]
  /\ overtaken = [a \in Activities |-> FALSE] /\ leaked = {}

-----------------------------------------------------------------------------
\* Moving on in one thread.
AppAt(a, place)   == app[a].at = place
AppGoes(a, place) == app' = [app EXCEPT ![a].at = place] /\ UNCHANGED <<ui, fixed>>
UIAt(a, place)    == ui.at = place /\ ui.activity = a
UIGoes(place)     == ui' = [ui EXCEPT !.at = place] /\ UNCHANGED <<app, fixed>>
UIReturns         == ui' = Idle /\ UNCHANGED <<app, fixed>>

\* The activities whose CustomData is there.
Alive == {a \in Activities : data[a].memory = "live"}

\* Stores to the two fields the threads tell each other about.
SetMainLoop(a, v) ==
  /\ data' = [data EXCEPT ![a].main_loop = v]
  /\ seen' = IF stores_late THEN seen ELSE [seen EXCEPT ![a].main_loop = v]
SetNativeWindow(a, w) ==
  /\ data' = [data EXCEPT ![a].native_window = w]
  /\ seen' = IF stores_late THEN seen ELSE [seen EXCEPT ![a].native_window = w]

\* A store becomes visible to the other thread.
Drain(a) ==
  /\ seen[a] # [main_loop |-> data[a].main_loop, native_window |-> data[a].native_window]
  /\ \/ seen' = [seen EXCEPT ![a].main_loop = data[a].main_loop]
     \/ seen' = [seen EXCEPT ![a].native_window = data[a].native_window]
  /\ seen' # seen
  /\ UNCHANGED <<data, is_running, sink_window, refs, threads, past>>

SetPipeline(a, state) ==
  data' = IF data[a].pipeline = "none" THEN data ELSE [data EXCEPT ![a].pipeline = state]

-----------------------------------------------------------------------------
(***************************************************************************)
(* app_function, on the app thread.                                        *)
(***************************************************************************)
ParsePipeline(a) ==
  /\ AppAt(a, "parse")
  /\ \/ data' = [data EXCEPT ![a].pipeline = "NULL"] /\ AppGoes(a, "ready")
     \/ AppGoes(a, "done") /\ UNCHANGED data                        \* "Unable to build pipeline"
  /\ UNCHANGED <<seen, is_running, sink_window, refs, past>>

SetReady(a) ==
  /\ AppAt(a, "ready")
  /\ SetPipeline(a, "READY")
  /\ AppGoes(a, "sink")
  /\ UNCHANGED <<seen, is_running, sink_window, refs, past>>

GetVideoSink(a) ==
  /\ AppAt(a, "sink")
  /\ \/ data' = [data EXCEPT ![a].video_sink = TRUE] /\ AppGoes(a, "loop")
     \/ AppGoes(a, "done") /\ UNCHANGED data                        \* "Could not retrieve video sink"
  /\ UNCHANGED <<seen, is_running, sink_window, refs, past>>

NewMainLoop(a) ==
  /\ AppAt(a, "loop")
  /\ SetMainLoop(a, TRUE)
  /\ AppGoes(a, "check")
  /\ UNCHANGED <<is_running, sink_window, refs, past>>

\* check_initialization_complete on the app thread: native_window is read once
\* for the condition and again for the argument.
CheckWindow(a) ==
  /\ AppAt(a, "check")
  /\ AppGoes(a, IF seen[a].native_window # NoWindow THEN "argument" ELSE "run")
  /\ UNCHANGED <<data, seen, is_running, sink_window, refs, past>>

ReadWindow(a) ==
  /\ AppAt(a, "argument")
  /\ app' = [app EXCEPT ![a] = [at |-> "inform", window |-> seen[a].native_window]]
  /\ UNCHANGED <<data, seen, is_running, sink_window, refs, ui, fixed, past>>

InformSink(a) ==
  /\ AppAt(a, "inform")
  /\ sink_window' = [sink_window EXCEPT ![a] = app[a].window]
  /\ app' = [app EXCEPT ![a] = [at |-> "initialized", window |-> NoWindow]]
  /\ UNCHANGED <<data, seen, is_running, refs, ui, fixed, past>>

\* onGStreamerInitialized calls nativePlay.
Initialized(a) ==
  /\ AppAt(a, "initialized")
  /\ reported' = [reported EXCEPT ![a] = TRUE]
  /\ SetPipeline(a, "PLAYING")
  /\ AppGoes(a, "run")
  /\ UNCHANGED <<seen, is_running, sink_window, refs, overtaken, leaked>>

\* g_main_loop_run; the lock it takes makes earlier stores visible.
RunMainLoop(a) ==
  /\ AppAt(a, "run")
  /\ is_running' = [is_running EXCEPT ![a] = TRUE]
  /\ seen' = [seen EXCEPT ![a].main_loop = data[a].main_loop]
  /\ AppGoes(a, "dispatch")
  /\ UNCHANGED <<data, sink_window, refs, past>>

error_cb(a) ==
  /\ AppAt(a, "dispatch") /\ is_running[a]
  /\ SetPipeline(a, "NULL")
  /\ UNCHANGED <<seen, is_running, sink_window, refs, threads, past>>

ExitMainLoop(a) ==
  /\ AppAt(a, "dispatch") /\ ~is_running[a]
  /\ AppGoes(a, "cleanup")
  /\ UNCHANGED <<data, seen, is_running, sink_window, refs, past>>

ForgetMainLoop(a) ==
  /\ AppAt(a, "cleanup")
  /\ SetMainLoop(a, FALSE)
  /\ AppGoes(a, "unref")
  /\ UNCHANGED <<is_running, sink_window, refs, past>>

UnrefPipeline(a) ==
  /\ AppAt(a, "unref")
  /\ data' = [data EXCEPT ![a].pipeline = "none", ![a].video_sink = FALSE]
  /\ sink_window' = [sink_window EXCEPT ![a] = NoWindow]
  /\ AppGoes(a, "done")
  /\ UNCHANGED <<seen, is_running, refs, past>>

app_function(a) ==
  \/ ParsePipeline(a) \/ SetReady(a) \/ GetVideoSink(a) \/ NewMainLoop(a)
  \/ CheckWindow(a) \/ ReadWindow(a) \/ InformSink(a) \/ Initialized(a)
  \/ RunMainLoop(a) \/ ExitMainLoop(a) \/ ForgetMainLoop(a) \/ UnrefPipeline(a)

-----------------------------------------------------------------------------
(***************************************************************************)
(* Android's callbacks, on the UI thread.  Android calls one at a time: the *)
(* surface changes any number of times, may go and come again, and may     *)
(* still be there when the activity is destroyed.                          *)
(***************************************************************************)
\* Plausible slip: the handle of the first thread kept.
FirstThread(a) == IF gst_app_thread = NoThread THEN a ELSE gst_app_thread
NewThread(a)   == a

\* onCreate: nativeInit and nativeStart.
onCreate(a) ==
  /\ ui.at = "idle" /\ data[a].memory = "none"
  /\ data' = [data EXCEPT ![a].memory = "live"]
  /\ app' = [app EXCEPT ![a].at = "parse"]
  /\ gst_app_thread' = NewThread(a)
  /\ overtaken' = [o \in Activities |-> overtaken[o] \/ o \in Alive]
  /\ UNCHANGED <<seen, is_running, sink_window, refs, ui, stores_late, reported, leaked>>

\* Plausible slip: the reference of an unchanged window not given back.
KeepBothReferences(w) == refs' = [refs EXCEPT ![w] = @ + 1]
KeepOneReference(w)   == refs' = refs

\* surfaceChanged: nativeSurfaceInit.  A window that replaces another gets
\* into native_window after the other has been released and forgotten. One
\* that is referenced already is the surface's own or not a new one.
surfaceChanged(a, w) ==
  /\ w \in Surface[a]
  /\ ui.at = "idle" /\ data[a].memory = "live"
  /\ refs[w] = 0 \/ data[a].native_window = w
  /\ \/ /\ data[a].native_window = NoWindow
        /\ SetNativeWindow(a, w)
        /\ refs' = [refs EXCEPT ![w] = @ + 1]
        /\ reported' = [reported EXCEPT ![a] = FALSE]
        /\ ui' = [at |-> "check", activity |-> a, window |-> w]
     \/ /\ data[a].native_window = w
        /\ KeepOneReference(w)
        /\ UNCHANGED <<data, seen, ui, reported>>
     \/ /\ data[a].native_window \in Windows \ {w}
        /\ refs' = [refs EXCEPT ![data[a].native_window] = @ - 1, ![w] = @ + 1]
        /\ ui' = [at |-> "clear", activity |-> a, window |-> w]
        /\ UNCHANGED <<data, seen, reported>>
  /\ UNCHANGED <<is_running, sink_window, app, fixed, overtaken, leaked>>

ClearWindow(a) ==
  /\ UIAt(a, "clear")
  /\ SetNativeWindow(a, NoWindow)
  /\ UIGoes("swap")
  /\ UNCHANGED <<is_running, sink_window, refs, past>>

SwapWindow(a) ==
  /\ UIAt(a, "swap")
  /\ SetNativeWindow(a, ui.window)
  /\ reported' = [reported EXCEPT ![a] = FALSE]
  /\ UIGoes("check")
  /\ UNCHANGED <<is_running, sink_window, refs, overtaken, leaked>>

\* Plausible slips: the pipeline's creation not waited for; the check left to
\* the app thread.
AnyTime(a)     == TRUE
NotHere(a)     == FALSE
LoopCreated(a) == seen[a].main_loop

\* check_initialization_complete on the UI thread, the only one that stores
\* to native_window.
CheckMainLoop(a) ==
  /\ UIAt(a, "check")
  /\ IF LoopCreated(a) THEN UIGoes("inform") ELSE UIReturns
  /\ UNCHANGED <<data, seen, is_running, sink_window, refs, past>>

UIInformSink(a) ==
  /\ UIAt(a, "inform")
  /\ sink_window' = [sink_window EXCEPT ![a] = data[a].native_window]
  /\ UIGoes("play")
  /\ UNCHANGED <<data, seen, is_running, refs, past>>

UIInitialized(a) ==
  /\ UIAt(a, "play")
  /\ reported' = [reported EXCEPT ![a] = TRUE]
  /\ SetPipeline(a, "PLAYING")
  /\ UIReturns
  /\ UNCHANGED <<seen, is_running, sink_window, refs, overtaken, leaked>>

\* surfaceDestroyed: nativeSurfaceFinalize.
surfaceDestroyed(a) ==
  /\ ui.at = "idle" /\ data[a].memory = "live" /\ data[a].native_window # NoWindow
  /\ ui' = [at |-> IF data[a].video_sink THEN "hide" ELSE "release",
            activity |-> a, window |-> NoWindow]
  /\ UNCHANGED <<data, seen, is_running, sink_window, refs, app, fixed, past>>

HideWindow(a) ==
  /\ UIAt(a, "hide")
  /\ sink_window' = [sink_window EXCEPT ![a] = NoWindow]
  /\ UIGoes("stop")
  /\ UNCHANGED <<data, seen, is_running, refs, past>>

StopPipeline(a) ==
  /\ UIAt(a, "stop")
  /\ SetPipeline(a, "READY")
  /\ UIGoes("release")
  /\ UNCHANGED <<seen, is_running, sink_window, refs, past>>

ReleaseWindow(a) ==
  /\ UIAt(a, "release")
  /\ refs' = [refs EXCEPT ![data[a].native_window] = @ - 1]
  /\ UIGoes("forget")
  /\ UNCHANGED <<data, seen, is_running, sink_window, past>>

ForgetWindow(a) ==
  /\ UIAt(a, "forget")
  /\ SetNativeWindow(a, NoWindow)
  /\ UIReturns
  /\ UNCHANGED <<is_running, sink_window, refs, past>>

\* onDestroy: nativeFinalize, which calls nativeStop.
onDestroy(a) ==
  /\ ui.at = "idle" /\ data[a].memory = "live"
  /\ ui' = [at |-> "quit", activity |-> a, window |-> NoWindow]
  /\ UNCHANGED <<data, seen, is_running, sink_window, refs, app, fixed, past>>

\* Plausible slip: the loop not told to end.
NoQuit(a)   == UNCHANGED is_running
QuitLoop(a) == is_running' = [is_running EXCEPT ![a] = @ /\ ~seen[a].main_loop]

Quit(a) ==
  /\ UIAt(a, "quit")
  /\ QuitLoop(a)
  /\ UIGoes("join")
  /\ UNCHANGED <<data, seen, sink_window, refs, past>>

ThreadDone(t) == t = NoThread \/ app[t].at = "done"

\* The thread that is joined is the one gst_app_thread has; a second join of
\* one that has ended returns.
Join(a) ==
  /\ UIAt(a, "join")
  /\ ThreadDone(gst_app_thread)
  /\ UIGoes("free")
  /\ UNCHANGED <<data, seen, is_running, sink_window, refs, past>>

\* The reference on a window that is still there is not given back.
FreeData(a) ==
  /\ UIAt(a, "free")
  /\ data' = [data EXCEPT ![a].memory = "freed"]
  /\ leaked' = leaked \cup ({data[a].native_window} \ {NoWindow})
  /\ UIReturns
  /\ UNCHANGED <<seen, is_running, sink_window, refs, reported, overtaken>>

\* The UI thread goes on with a call once it is in it.
native_call(a) ==
  \/ ClearWindow(a) \/ SwapWindow(a) \/ CheckMainLoop(a) \/ UIInformSink(a) \/ UIInitialized(a)
  \/ HideWindow(a) \/ StopPipeline(a) \/ ReleaseWindow(a) \/ ForgetWindow(a)
  \/ Quit(a) \/ Join(a) \/ FreeData(a)

Callback(a) ==
  onCreate(a) \/ (\E w \in Windows : surfaceChanged(a, w)) \/ surfaceDestroyed(a) \/ onDestroy(a)

Next ==
  \E a \in Activities :
    app_function(a) \/ error_cb(a) \/ native_call(a) \/ Callback(a) \/ Drain(a)

Spec == Init /\ [][Next]_vars

\* The threads are scheduled, those whose memory is freed left aside, and
\* stores become visible; what Android calls, and whether the pipeline reports
\* an error, is left open.
FairSpec ==
  Spec /\ \A a \in Activities :
            /\ WF_vars(a \in Alive /\ app_function(a))
            /\ WF_vars(native_call(a)) /\ WF_vars(Drain(a))

-----------------------------------------------------------------------------
\* The fields of the C structure the model keeps, and those that the other
\* thread may still see with an older value.
CustomData == [memory : {"none", "live", "freed"}, pipeline : Pipeline,
               video_sink : BOOLEAN, main_loop : BOOLEAN, native_window : Window]
Signals == [main_loop : BOOLEAN, native_window : Window]

\* Every field keeps its type; no window holds more than one native reference.
TypeOK ==
  /\ data \in [Activities -> CustomData]
  /\ seen \in [Activities -> Signals]
  /\ is_running \in [Activities -> BOOLEAN]
  /\ sink_window \in [Activities -> Window]
  /\ refs \in [Windows -> 0..1]
  /\ gst_app_thread \in Activities \cup {NoThread}
  /\ app \in [Activities -> [at : AppPlaces, window : Window]]
  /\ ui \in [at : UIPlaces, activity : Activities \cup {NoThread}, window : Window]
  /\ stores_late \in BOOLEAN /\ reported \in [Activities -> BOOLEAN]
  /\ overtaken \in [Activities -> BOOLEAN] /\ leaked \subseteq Windows

\* nativeFinalize removes the thread before it frees what the thread uses, for
\* an activity that no other was created beside, however many there were
\* before and come after it. For one that was overtaken it does not: it joins
\* the thread of the newest.
ThreadRemovedUnlessOvertaken ==
  \A a \in Activities : data[a].memory = "freed" /\ ~overtaken[a] => AppAt(a, "done")

\* The threads tell each other by two fields, without a lock, that the window
\* and the loop are there.  Whichever comes last, onGStreamerInitialized is
\* called: once the loop runs and no callback is under way, a window that is
\* there has been reported.  It needs stores that are seen at once.
InitializationReported ==
  ~stores_late =>
    \A a \in Alive :
      AppAt(a, "dispatch") /\ data[a].native_window # NoWindow /\ ui.activity # a /\ is_running[a]
        => reported[a]

\* Between callbacks the native code holds one reference on the window of each
\* activity that is alive, and none on any other, however often the surface
\* has changed; but for the windows nativeFinalize found still there, whose
\* reference nobody gives back any more.
WindowRefsBalanced ==
  ui.at = "idle" =>
    \A w \in Windows :
      refs[w] = Cardinality({a \in Alive : data[a].native_window = w})
                + (IF w \in leaked THEN 1 ELSE 0)

\* The first half of the comment at onGStreamerInitialized: whichever thread
\* calls it, the pipeline and its sink are there, and stay until it is done.
InitializedAfterPipeline ==
  \A a \in Alive :
    AppAt(a, "inform") \/ AppAt(a, "initialized") \/ UIAt(a, "inform") \/ UIAt(a, "play")
      => data[a].pipeline # "none" /\ data[a].video_sink

\* An activity that is destroyed while its main loop runs, or after its thread
\* has given up, comes to the end of nativeFinalize; unless another has been
\* created since, whose thread it waits for.
StopCompletes ==
  \A a \in Activities :
    (UIAt(a, "quit") /\ gst_app_thread = a /\ (is_running[a] \/ AppAt(a, "done")))
      ~> (data[a].memory = "freed")

-----------------------------------------------------------------------------
\* The comment of nativeFinalize, "Quit the main loop, remove the native thread
\* and free resources": a call of it gets that done.
FinalizeCompletes ==
  \A a \in Activities : UIAt(a, "quit") ~> (data[a].memory = "freed")
=============================================================================
