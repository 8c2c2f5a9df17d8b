---------------------------- MODULE BrowserRecorder ----------------------------
(***************************************************************************)
(* The survey recorder of the browser client: the Start and Stop buttons    *)
(* spawn tasks that hold the recorder state borrowed across their awaits,   *)
(* while sensor events arrive, controls are used and buttons are pressed    *)
(* again.  A borrow of the state that is already borrowed panics: its task  *)
(* ends there and then, whatever it has done by that time.                  *)
(*                                                                         *)
(* A step is the code between two awaits.  What a frame looks like, and the *)
(* layout and chart controls, are left out; a motion event is the number of *)
(* its arrival.                                                            *)
(***************************************************************************)
EXTENDS Naturals, FiniteSets

CONSTANTS Starts,     \* presses of the Start button
          Stops,      \* presses of the Stop button
          MaxEvents,  \* bound: motion events
          Nothing

Modes == {"camera", "screen", "combined"}

ASSUME RecorderAssumption ==
  /\ MaxEvents \in Nat
  /\ Nothing \notin Starts \cup Stops
  /\ Nothing \notin [start : Starts, mode : Modes]
  /\ Nothing \notin [start : Starts, js : {"inactive", "running", "gone"}]
  /\ Nothing \notin [start : Starts, motion : SUBSET (1..MaxEvents)]
  /\ Nothing \notin [start : Starts, mode : Modes, motion : SUBSET (1..MaxEvents)]

VARIABLES source_type, \* RecorderState.source_type
          streams,     \* camera_stream, screen_stream: the start and the mode they are of
          recorder,    \* RecorderState.recorder: the start it is of, and its state in JavaScript
          recording,   \* RecorderState.recording
          borrowed,    \* the task that holds RECORDER_STATE
          manager,     \* SENSOR_MANAGER: the start it is of, and its motion data
          listeners,   \* sensorListenersActive
          recording_ui,\* the page shows Stop instead of Start, and has the mode disabled
          task,        \* where each task is
          taken,       \* what a stop saves
          saved,       \* the recordings in IndexedDB, by their starts
          arrived,     \* how many motion events the listeners have had
          began        \* history: arrived, when a start created its manager

stateVars == <<source_type, streams, recorder, recording>>
sensorVars == <<manager, listeners, arrived, began>>
recorderVars == <<source_type, streams, recorder, recording, borrowed, manager,
                  listeners, recording_ui, task, taken, saved, arrived, began>>

Tasks == Starts \cup Stops

StartingAt == {"permission", "streams", "video"}

Recordings == [start : Starts, mode : Modes, motion : SUBSET (1..MaxEvents)]

RecorderInit ==
  /\ source_type = "combined"
  /\ streams = Nothing /\ recorder = Nothing /\ recording = FALSE
  /\ borrowed = Nothing
  /\ manager = Nothing /\ listeners = FALSE /\ arrived = 0
  /\ recording_ui = FALSE
  /\ task = [t \in Tasks |-> "new"]
  /\ taken = Nothing /\ saved = {}
  /\ began = [t \in Starts |-> 0]

RecorderTypeOK ==
  /\ source_type \in Modes
  /\ streams = Nothing \/ streams \in [start : Starts, mode : Modes]
  /\ recorder = Nothing \/ recorder \in [start : Starts, js : {"inactive", "running", "gone"}]
  /\ borrowed \in Tasks \cup {Nothing}
  /\ manager = Nothing \/ manager \in [start : Starts, motion : SUBSET (1..MaxEvents)]
  /\ {recording, listeners, recording_ui} \subseteq BOOLEAN
  /\ task \in [Tasks -> StartingAt \cup {"new", "encoding", "saving", "ok", "err", "panicked"}]
  /\ taken = Nothing \/ taken \in Recordings
  /\ saved \subseteq Starts
  /\ arrived \in 0..MaxEvents
  /\ began \in [Starts -> 0..MaxEvents]

To(t, where) == task' = [task EXCEPT ![t] = where]

-----------------------------------------------------------------------------
(* Start *)

\* The Start button; the first await is request_sensor_permissions.
PressStart(t) ==
  /\ ~recording_ui
  /\ task[t] = "new"
  /\ To(t, "permission")
  /\ UNCHANGED <<stateVars, borrowed, sensorVars, recording_ui, taken, saved>>

NewManagerIfNone(t) ==  \* mutant: a manager that exists already is kept
  IF manager = Nothing THEN [start |-> t, motion |-> {}] ELSE manager

\* start_recording replaces the sensor manager before its first await.
NewManager(t) == [start |-> t, motion |-> {}]

\* Permission is given or refused; with it the page adds its listeners.  Then
\* the state is borrowed, and start_recording runs up to its first await.
PermissionAnswered(t, granted) ==
  /\ task[t] = "permission"
  /\ listeners' = (listeners \/ granted)
  /\ IF borrowed # Nothing
     THEN To(t, "panicked") /\ UNCHANGED <<borrowed, manager, began>>
     ELSE /\ To(t, "streams")
          /\ borrowed' = t
          /\ manager' = NewManager(t)
          /\ began' = [began EXCEPT ![t] = arrived]
  /\ UNCHANGED <<stateVars, arrived, recording_ui, taken, saved>>

StartFailsQuietly(t) ==  \* mutant: sensor tracking goes on
  /\ To(t, "err")
  /\ borrowed' = Nothing
  /\ manager' = Nothing
  /\ UNCHANGED listeners

\* The button's error branch.
StartFails(t) ==
  /\ To(t, "err")
  /\ borrowed' = Nothing
  /\ listeners' = FALSE
  /\ manager' = Nothing

\* The media streams are granted, or one of them is not.
StreamsAnswered(t, granted) ==
  /\ task[t] = "streams"
  /\ IF granted
     THEN /\ streams' = [start |-> t, mode |-> source_type]
          /\ To(t, "video")
          /\ UNCHANGED <<borrowed, manager, listeners>>
     ELSE StartFails(t) /\ UNCHANGED streams
  /\ UNCHANGED <<source_type, recorder, recording, arrived, began,
                 recording_ui, taken, saved>>

\* wait_for_video_ready always returns; the media recorder is created and
\* started, and each of the two can fail.
VideoReady(t) ==
  /\ task[t] = "video"
  /\ \/ /\ recorder' = [start |-> t, js |-> "running"]
        /\ recording' = TRUE
        /\ recording_ui' = TRUE
        /\ borrowed' = Nothing
        /\ To(t, "ok")
        /\ UNCHANGED <<manager, listeners>>
     \/ /\ recorder' \in {recorder, [start |-> t, js |-> "inactive"]}
        /\ StartFails(t)
        /\ UNCHANGED <<recording, recording_ui>>
  /\ UNCHANGED <<source_type, streams, arrived, began, taken, saved>>

-----------------------------------------------------------------------------
(* Stop *)

\* The Stop button, up to the wait for the encoder.  A media recorder that
\* does not run, or was stopped by an earlier Stop, is an error.
PressStop(t) ==
  /\ recording_ui
  /\ task[t] = "new"
  /\ IF borrowed # Nothing
     THEN To(t, "panicked") /\ UNCHANGED <<borrowed, listeners>>
     ELSE IF recorder = Nothing \/ recorder.js # "running"
     THEN To(t, "err") /\ listeners' = FALSE /\ UNCHANGED borrowed
     ELSE To(t, "encoding") /\ borrowed' = t /\ UNCHANGED listeners
  /\ UNCHANGED <<stateVars, manager, arrived, began, recording_ui, taken, saved>>

\* The video is there, and JavaScript forgets the recorder; sensor data and
\* metadata are collected, and the database is opened.
Encoded(t) ==
  /\ task[t] = "encoding"
  /\ recorder' = [recorder EXCEPT !.js = "gone"]
  /\ taken' = [start  |-> recorder.start,
               mode   |-> source_type,
               motion |-> IF manager = Nothing THEN {} ELSE manager.motion]
  /\ To(t, "saving")
  /\ UNCHANGED <<source_type, streams, recording, borrowed, sensorVars,
                 recording_ui, saved>>

\* The recording is stored and the state is reset; or opening or storing
\* failed, and only the sensors are stopped.
StoreAnswered(t, ok) ==
  /\ task[t] = "saving"
  /\ IF ok
     THEN /\ saved' = saved \cup {taken.start}
          /\ streams' = Nothing /\ recorder' = Nothing /\ recording' = FALSE
          /\ manager' = IF manager = Nothing THEN Nothing ELSE [manager EXCEPT !.motion = {}]
          /\ recording_ui' = FALSE
          /\ To(t, "ok")
     ELSE /\ To(t, "err")
          /\ UNCHANGED <<streams, recorder, recording, manager, recording_ui, saved>>
  /\ taken' = Nothing
  /\ borrowed' = Nothing
  /\ listeners' = FALSE
  /\ UNCHANGED <<source_type, arrived, began>>

-----------------------------------------------------------------------------
(* Sensors, controls, the list of recordings *)

\* on_motion.
Motion ==
  /\ listeners /\ arrived < MaxEvents
  /\ arrived' = arrived + 1
  /\ manager' = IF manager = Nothing THEN Nothing
                ELSE [manager EXCEPT !.motion = @ \cup {arrived + 1}]
  /\ UNCHANGED <<stateVars, borrowed, listeners, began, recording_ui, task, taken, saved>>

\* The mode controls are disabled while the page shows a recording; their
\* handlers borrow the state, so that a change during a start or a stop
\* panics and is lost.
CanSet == ~recording_ui /\ borrowed = Nothing

SetMode(mode) ==
  /\ CanSet
  /\ source_type' = mode
  /\ UNCHANGED <<streams, recorder, recording, borrowed, sensorVars, recording_ui, task,
                 taken, saved>>

\* delete_recording_by_id, confirmed.
DeleteRecording(t) ==
  /\ t \in saved
  /\ saved' = saved \ {t}
  /\ UNCHANGED <<stateVars, borrowed, sensorVars, recording_ui, task, taken>>

StartStep(t) == \/ PressStart(t)
                \/ \E granted \in BOOLEAN : PermissionAnswered(t, granted) \/ StreamsAnswered(t, granted)
                \/ VideoReady(t)

StopStep(t) == PressStop(t) \/ Encoded(t) \/ \E ok \in BOOLEAN : StoreAnswered(t, ok)

RecorderNext ==
  \/ \E t \in Starts : StartStep(t)
  \/ \E t \in Stops : StopStep(t)
  \/ Motion
  \/ \E mode \in Modes : SetMode(mode)
  \/ \E t \in saved : DeleteRecording(t)

RecorderSpec == RecorderInit /\ [][RecorderNext]_recorderVars

-----------------------------------------------------------------------------
(* Properties *)

\* A recording about to be saved states the mode its streams were opened in,
\* and carries the motion events since its own start or none at all: those of
\* an earlier recording never, and never with a gap, however starts, failures
\* and stops overlap (state.rs, start_recording and stop_recording).
SavedAsRecorded ==
  taken # Nothing =>
    /\ streams # Nothing /\ streams.mode = taken.mode
    /\ \A e \in taken.motion : e > began[taken.start]
    /\ \A e \in taken.motion, f \in 1..arrived :
         began[taken.start] < f /\ f < e => f \in taken.motion

\* The page listens to the sensors only while somebody is starting, making or
\* saving a recording, also after presses that panic (ui.rs,
\* setup_recording_buttons).
SensorsReleased ==
  listeners => \/ recording
               \/ borrowed # Nothing
               \/ \E t \in Starts : task[t] \in StartingAt
=============================================================================
