----------------------------- MODULE ClientSurvey -----------------------------
(***************************************************************************)
(* The network analysis of the browser client: analyze_network_with_options *)
(* opens the connections, waits for their control channels and for the     *)
(* server, runs the path tests and starts the measurement, while the page  *)
(* may be hidden, Stop pressed, Analyze pressed again, and channels open   *)
(* late or break.  JavaScript runs one callback at a time, so a step here  *)
(* is the code between two awaits.                                         *)
(*                                                                         *)
(* A wait that ends on an answer or on a countdown may end at any time,    *)
(* so the counters the waits look at are left out.  Drawing is left out.   *)
(***************************************************************************)
EXTENDS Naturals, FiniteSets

CONSTANTS Runs,    \* calls of analyze_network_with_options; also their survey ids
          N,       \* connections of a run, the IPv4 ones first
          Rounds,  \* traceroute and MTU rounds
          NoRun

ASSUME SurveyAssumption ==
  /\ N \in Nat \ {0}
  /\ Rounds \in Nat \ {0}
  /\ NoRun \notin Runs

Connections == Runs \X (1..N)

VARIABLES abort,      \* ABORT_TESTING
          active,     \* IS_TESTING_ACTIVE
          peers,      \* ACTIVE_PEERS
          intervals,  \* ACTIVE_INTERVALS: the runs whose timers tick
          wake_lock,  \* WAKE_LOCK: the run whose sentinel is stored
          survey,     \* SURVEY_SESSION_ID
          testing_ui, \* the page shows Stop instead of Analyze
          pc,         \* where each run is
          pos,        \* the connection a run is at
          round,      \* the round of path tests a run is at
          skip,       \* skip_path_tests
          channel,    \* the control channel of each connection
          failed,     \* WebRtcConnection.failed
          ready,      \* server_side_ready
          delivered,  \* what the server got: the survey's start, work to do
          stopped     \* history: runs in flight when Stop was pressed

pageVars == <<abort, active, peers, intervals, wake_lock, survey, testing_ui>>
runVars == <<pc, pos, round, skip>>
connVars == <<channel, failed, ready, delivered>>
surveyVars == <<abort, active, peers, intervals, wake_lock, survey, testing_ui, pc, pos,
                round, skip, channel, failed, ready, delivered, stopped>>

InFlight == {"config", "wake lock", "connect", "channel", "server", "probe", "measure"}

Ended == {"done", "aborted", "error"}

SurveyInit ==
  /\ abort = FALSE /\ active = FALSE /\ testing_ui = FALSE
  /\ peers = {} /\ intervals = {} /\ stopped = {}
  /\ wake_lock = NoRun /\ survey = NoRun
  /\ pc = [r \in Runs |-> "new"]
  /\ pos = [r \in Runs |-> 1]
  /\ round = [r \in Runs |-> 1]
  /\ skip = [r \in Runs |-> FALSE]
  /\ channel = [c \in Connections |-> "none"]
  /\ failed = {} /\ ready = {}
  /\ delivered = [c \in Connections |-> {}]

SurveyTypeOK ==
  /\ abort \in BOOLEAN /\ active \in BOOLEAN /\ testing_ui \in BOOLEAN
  /\ peers \subseteq Connections
  /\ intervals \subseteq Runs
  /\ {wake_lock, survey} \subseteq Runs \cup {NoRun}
  /\ pc \in [Runs -> InFlight \cup Ended \cup {"new"}]
  /\ pos \in [Runs -> 1..N]
  /\ round \in [Runs -> 1..Rounds + 1]
  /\ channel \in [Connections -> {"none", "connecting", "open", "closed"}]
  /\ failed \cup ready \subseteq Connections

-----------------------------------------------------------------------------
(* Sending *)

CanSendAny(c) == channel[c] = "open"  \* mutant: a failed connection is used again

\* send_control_message returns an error unless
CanSend(c) == c \notin failed /\ channel[c] = "open"

\* What the server has got once kind is sent on the connections cs.
Sent(kind, cs) == [c \in Connections |->
  IF c \in cs /\ CanSend(c) THEN delivered[c] \cup {kind} ELSE delivered[c]]

-----------------------------------------------------------------------------
(* The run *)

\* The Analyze button, then the function up to its first await.
Analyze(r, skipPathTests) ==
  /\ ~testing_ui
  /\ pc[r] = "new"
  /\ testing_ui' = TRUE
  /\ abort' = FALSE
  /\ survey' = r
  /\ pc' = [pc EXCEPT ![r] = "config"]
  /\ skip' = [skip EXCEPT ![r] = skipPathTests]
  /\ UNCHANGED <<active, peers, intervals, wake_lock, pos, round, connVars, stopped>>

\* fetch_client_config falls back to defaults, whatever goes wrong.
ConfigFetched(r) ==
  /\ pc[r] = "config"
  /\ pc' = [pc EXCEPT ![r] = "wake lock"]
  /\ UNCHANGED <<pageVars, pos, round, skip, connVars, stopped>>

\* The abort check in front of the next piece of work: the run goes to phase
\* at connection i, or returns with everything it holds left as it is.
Proceed(r, phase, i) ==
  IF abort THEN pc' = [pc EXCEPT ![r] = "aborted"] /\ UNCHANGED pos
  ELSE pc' = [pc EXCEPT ![r] = phase] /\ pos' = [pos EXCEPT ![r] = i]

\* request_wake_lock; a sentinel that is stored already is overwritten.
WakeLockAnswered(r, granted) ==
  /\ pc[r] = "wake lock"
  /\ wake_lock' = IF granted THEN r ELSE wake_lock
  /\ Proceed(r, "connect", 1)
  /\ UNCHANGED <<abort, active, peers, intervals, survey, testing_ui, round, skip,
                 connVars, stopped>>

\* new_with_ip_version_and_mode returns: an error ends the run, and the page
\* offers Analyze again.
Connected(r, ok) ==
  /\ pc[r] = "connect"
  /\ IF ok
     THEN /\ channel' = [channel EXCEPT ![<<r, pos[r]>>] = "connecting"]
          /\ IF pos[r] < N THEN Proceed(r, "connect", pos[r] + 1) ELSE Proceed(r, "channel", 1)
          /\ UNCHANGED testing_ui
     ELSE /\ pc' = [pc EXCEPT ![r] = "error"]
          /\ testing_ui' = FALSE
          /\ UNCHANGED <<channel, pos>>
  /\ UNCHANGED <<abort, active, peers, intervals, wake_lock, survey, round, skip,
                 failed, ready, delivered, stopped>>

\* wait_for_control_channel_ready: the channel is open and StartSurveySession
\* goes out, or the two seconds are over and the connection is given up.
ChannelAwaited(r) ==
  LET c == <<r, pos[r]>> IN
  /\ pc[r] = "channel"
  /\ IF channel[c] = "open"
     THEN delivered' = Sent("survey", {c}) /\ UNCHANGED failed
     ELSE failed' = failed \cup {c} /\ UNCHANGED delivered
  /\ IF pos[r] < N THEN Proceed(r, "channel", pos[r] + 1) ELSE Proceed(r, "server", 1)
  /\ UNCHANGED <<pageVars, round, skip, channel, ready, stopped>>

Usable(r) == {i \in 1..N : <<r, i>> \notin failed}

\* The run turns to the first of the connections is.
TurnTo(r, is) == \E i \in is : (\A j \in is : i <= j) /\ pos' = [pos EXCEPT ![r] = i]

\* A round goes over the usable connections; without any, it is only a wait.
RoundOver(r) == IF Usable(r) = {} THEN {1} ELSE Usable(r)

\* Phase 3 up to its await: GetMeasuringTime on the first connection.
AskMeasuringTime(r) ==
  /\ pc' = [pc EXCEPT ![r] = "measure"]
  /\ delivered' = Sent("work", {<<r, 1>>})

\* A poll of the server-ready loop that leaves it: the connections that did
\* not fail are ready, or 30 seconds are over.
ServerAwaited(r, timeout) ==
  /\ pc[r] = "server"
  /\ timeout \/ \A i \in Usable(r) : <<r, i>> \in ready
  /\ IF abort
     THEN pc' = [pc EXCEPT ![r] = "aborted"] /\ UNCHANGED <<pos, delivered>>
     ELSE IF skip[r]
     THEN AskMeasuringTime(r) /\ UNCHANGED pos
     ELSE /\ pc' = [pc EXCEPT ![r] = "probe"]
          /\ TurnTo(r, RoundOver(r))
          /\ UNCHANGED delivered
  /\ UNCHANGED <<pageVars, round, skip, channel, failed, ready, stopped>>

\* A round starts the path test of every usable connection, with a wait after
\* each; without one, the round is only a wait.
PathTest(r) ==
  /\ pc[r] = "probe" /\ round[r] <= Rounds
  /\ IF abort
     THEN pc' = [pc EXCEPT ![r] = "aborted"] /\ UNCHANGED <<pos, round, delivered>>
     ELSE LET later == {i \in Usable(r) : i > pos[r]} IN
          /\ delivered' = IF Usable(r) = {} THEN delivered ELSE Sent("work", {<<r, pos[r]>>})
          /\ IF later # {}
             THEN TurnTo(r, later) /\ UNCHANGED round
             ELSE /\ TurnTo(r, RoundOver(r))
                  /\ round' = [round EXCEPT ![r] = @ + 1]
          /\ UNCHANGED pc
  /\ UNCHANGED <<pageVars, skip, channel, failed, ready, stopped>>

PathTestsOver(r) ==
  /\ pc[r] = "probe" /\ round[r] > Rounds
  /\ AskMeasuringTime(r)
  /\ UNCHANGED <<pageVars, pos, round, skip, channel, failed, ready, stopped>>

StartMeasuring(r) ==
  LET mine == {<<r, i>> : i \in 1..N} IN
  /\ pc' = [pc EXCEPT ![r] = "done"]
  /\ delivered' = Sent("work", mine)
  /\ intervals' = intervals \cup {r}
  /\ peers' = peers \cup mine
  /\ active' = TRUE

MeasureUnchecked(r) ==  \* mutant: no abort check after the last wait
  /\ pc[r] = "measure"
  /\ StartMeasuring(r)
  /\ UNCHANGED <<abort, wake_lock, survey, testing_ui, pos, round, skip, channel, failed,
                 ready, stopped>>

\* The rest of phase 3: StartProbeStreams everywhere, timers, registration.
Measure(r) ==
  /\ pc[r] = "measure"
  /\ IF abort
     THEN /\ pc' = [pc EXCEPT ![r] = "aborted"]
          /\ UNCHANGED <<delivered, intervals, peers, active>>
     ELSE StartMeasuring(r)
  /\ UNCHANGED <<abort, wake_lock, survey, testing_ui, pos, round, skip, channel, failed,
                 ready, stopped>>

RunStep(r) == \/ ConfigFetched(r)
              \/ \E granted \in BOOLEAN : WakeLockAnswered(r, granted)
              \/ \E ok \in BOOLEAN : Connected(r, ok)
              \/ ChannelAwaited(r)
              \/ \E timeout \in BOOLEAN : ServerAwaited(r, timeout)
              \/ PathTest(r)
              \/ PathTestsOver(r)
              \/ Measure(r)

-----------------------------------------------------------------------------
(* Stopping *)

StopMeasurement ==  \* mutant: the deprecated stop_measurement, in its place
  /\ wake_lock' = NoRun
  /\ active' = FALSE
  /\ abort' = FALSE
  /\ UNCHANGED <<peers, intervals, channel>>

\* stop_testing sets the abort flag, and clear_active_resources resets it.
StopTesting ==
  /\ channel' = [c \in Connections |-> IF c \in peers THEN "closed" ELSE channel[c]]
  /\ peers' = {}
  /\ intervals' = {}
  /\ abort' = FALSE
  /\ wake_lock' = NoRun
  /\ active' = FALSE

\* The Stop button.
Stop ==
  /\ testing_ui
  /\ StopTesting
  /\ testing_ui' = FALSE
  /\ stopped' = stopped \cup {r \in Runs : pc[r] \in InFlight}
  /\ UNCHANGED <<survey, runVars, failed, ready, delivered>>

\* The visibility handler.
Hidden ==
  /\ IF active
     THEN StopTesting
     ELSE /\ abort' = TRUE
          /\ UNCHANGED <<active, peers, intervals, wake_lock, channel>>
  /\ UNCHANGED <<survey, testing_ui, runVars, failed, ready, delivered, stopped>>

-----------------------------------------------------------------------------
(* The other end *)

\* A control channel opens, perhaps long after the wait for it.
ChannelOpens(c) ==
  /\ channel[c] = "connecting"
  /\ channel' = [channel EXCEPT ![c] = "open"]
  /\ UNCHANGED <<pageVars, runVars, failed, ready, delivered, stopped>>

ChannelBreaks(c) ==
  /\ channel[c] = "open"
  /\ channel' = [channel EXCEPT ![c] = "closed"]
  /\ UNCHANGED <<pageVars, runVars, failed, ready, delivered, stopped>>

\* ServerSideReady arrives.
ServerReady(c) ==
  /\ channel[c] = "open" /\ "survey" \in delivered[c] /\ c \notin ready
  /\ ready' = ready \cup {c}
  /\ UNCHANGED <<pageVars, runVars, channel, failed, delivered, stopped>>

-----------------------------------------------------------------------------
SurveyNext ==
  \/ \E r \in Runs, skipPathTests \in BOOLEAN : Analyze(r, skipPathTests)
  \/ \E r \in Runs : RunStep(r)
  \/ Stop
  \/ Hidden
  \/ \E c \in Connections : ChannelOpens(c) \/ ChannelBreaks(c) \/ ServerReady(c)

SurveySpec == SurveyInit /\ [][SurveyNext]_surveyVars

-----------------------------------------------------------------------------
(* Properties *)

\* The server never gets a path test, a question or a stream request on a
\* connection whose survey session it was not told of, although channels open
\* after their connection was given up (webrtc.rs, send_control_message).
SurveyFirst == \A c \in Connections : delivered[c] # {} => "survey" \in delivered[c]

\* When no test is active, every connection of a completed analysis is closed
\* and no timer ticks, however many analyses overlapped; when one is, Stop
\* reaches every connection a completed analysis still has (stop_testing).
NothingLeftBehind ==
  /\ ~active => intervals = {}
  /\ \A r \in Runs, i \in 1..N :
       pc[r] = "done" /\ channel[<<r, i>>] # "closed" => active /\ <<r, i>> \in peers

\* Every analysis ends, whichever connections fail, never open or never hear
\* from the server (analyze_network_with_options); and if the page is hidden
\* during its phases and nobody presses a button, it ends without starting to
\* measure (setup_visibility_change_handler).
AnalysisEnds ==
  \A r \in Runs :
    /\ (pc[r] \in InFlight) ~> (pc[r] \in Ended)
    /\ (abort /\ pc[r] \in InFlight) ~> (~abort \/ pc[r] \in {"aborted", "error"})

\* "Set abort flag to stop any ongoing phases": an analysis in its phases when
\* Stop is pressed does not go on to measure (lib.rs, stop_testing).
StopEndsAnalysis == \A r \in stopped : pc[r] # "done"
=============================================================================
