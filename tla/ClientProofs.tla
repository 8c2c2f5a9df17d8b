----------------------------- MODULE ClientProofs -----------------------------
(***************************************************************************)
(* Proofs about the browser client, for any number of analyses,            *)
(* connections and rounds, for any number of presses of the recorder's     *)
(* buttons and of sensor events, and for any candidates of the two ends of *)
(* a connection that is being set up.                                      *)
(***************************************************************************)
EXTENDS ClientSurvey, BrowserRecorder, PeerSetup, TLAPS

-----------------------------------------------------------------------------
(* The analysis *)

RunTypes ==
  /\ pc \in [Runs -> InFlight \cup Ended \cup {"new"}]
  /\ pos \in [Runs -> 1..N]
  /\ channel \in [Connections -> {"none", "connecting", "open", "closed"}]
  /\ delivered \in [Connections -> SUBSET {"survey", "work"}]

\* The server knows of the connection's survey, or nothing is sent on it.
Told(c) == c \in failed \/ "survey" \in delivered[c]

\* The run has waited for the channel of its connection i.
Waited(r, i) == \/ pc[r] = "channel" /\ i < pos[r]
                \/ pc[r] \in {"server", "probe", "measure"}

\* A run that has waited for the channel of a connection has told the server,
\* or given the connection up.  SurveyFirst alone does not say what later
\* sends rely on.
ToldAfterWait == \A r \in Runs, i \in 1..N : Waited(r, i) => Told(<<r, i>>)

AnalysisInv == RunTypes /\ ToldAfterWait /\ SurveyFirst /\ NothingLeftBehind

\* Before the first analysis nothing is told, registered or open.
LEMMA AnalysisInvInit == SurveyInit => AnalysisInv
  BY SurveyAssumption DEF SurveyInit, AnalysisInv, RunTypes, ToldAfterWait, SurveyFirst,
     NothingLeftBehind, Waited, InFlight, Ended

\* Work that goes out where the server was told, or an announcement, keeps
\* the order, and takes nothing back.
LEMMA SentInOrder ==
  ASSUME AnalysisInv, NEW cs \in SUBSET Connections, NEW kind \in {"survey", "work"},
         kind = "survey" \/ \A c \in cs : Told(c), delivered' = Sent(kind, cs)
  PROVE  /\ delivered' \in [Connections -> SUBSET {"survey", "work"}]
         /\ \A c \in Connections : delivered[c] \subseteq delivered'[c]
         /\ SurveyFirst'
  BY DEF AnalysisInv, RunTypes, Sent, CanSend, SurveyFirst, Told

\* A run never turns to a connection it does not have.
LEMMA TurnsToConnection ==
  ASSUME AnalysisInv, NEW r \in Runs, NEW is \in SUBSET (1..N), TurnTo(r, is)
  PROVE  pos' \in [Runs -> 1..N] /\ \A q \in Runs \ {r} : pos'[q] = pos[q]
  BY DEF AnalysisInv, RunTypes, TurnTo

\* The abort check moves the run where it says, or ends it.
LEMMA ProceedMoves ==
  ASSUME AnalysisInv, NEW r \in Runs, NEW phase \in InFlight, NEW i \in 1..N,
         Proceed(r, phase, i)
  PROVE  /\ pc' \in [Runs -> InFlight \cup Ended \cup {"new"}]
         /\ pos' \in [Runs -> 1..N]
         /\ \A q \in Runs \ {r} : pc'[q] = pc[q] /\ pos'[q] = pos[q]
         /\ \/ pc'[r] = "aborted"
            \/ pc'[r] = phase /\ pos'[r] = i
  BY DEF AnalysisInv, RunTypes, Proceed, Ended

\* A step that takes nothing back keeps ToldAfterWait if what is newly waited
\* for is told.
LEMMA StillTold ==
  ASSUME AnalysisInv, failed \subseteq failed',
         \A c \in Connections : delivered[c] \subseteq delivered'[c],
         \A q \in Runs, i \in 1..N :
            Waited(q, i)' => Waited(q, i) \/ <<q, i>> \in failed' \/ "survey" \in delivered'[<<q, i>>]
  PROVE  ToldAfterWait'
  BY DEF AnalysisInv, ToldAfterWait, Told, Connections

\* A step of an analysis sends nothing on a connection before its survey
\* session, and has told the server wherever it has waited (lib.rs,
\* analyze_network_with_options).
LEMMA RunStepKeepsOrder ==
  ASSUME AnalysisInv, NEW r \in Runs, RunStep(r)
  PROVE  RunTypes' /\ ToldAfterWait' /\ SurveyFirst'
<1> USE SurveyAssumption DEF connVars, pageVars
<1>0. r \in Runs /\ pos[r] \in 1..N /\ <<r, pos[r]>> \in Connections
  BY DEF AnalysisInv, RunTypes, Connections
<1>1. CASE ConfigFetched(r)
  <2>1. RunTypes' /\ SurveyFirst'
    BY <1>1 DEF ConfigFetched, AnalysisInv, RunTypes, SurveyFirst, InFlight
  <2>2. \A q \in Runs, i \in 1..N : Waited(q, i)' => Waited(q, i)
    BY <1>1 DEF ConfigFetched, AnalysisInv, RunTypes, Waited
  <2> QED
    BY <1>1, <2>1, <2>2, StillTold DEF ConfigFetched
<1>2. ASSUME NEW granted \in BOOLEAN, WakeLockAnswered(r, granted)
      PROVE  RunTypes' /\ ToldAfterWait' /\ SurveyFirst'
  <2>1. "connect" \in InFlight /\ 1 \in 1..N
    BY DEF InFlight
  <2>0. Proceed(r, "connect", 1)
    BY <1>2 DEF WakeLockAnswered
  <2>2. RunTypes' /\ SurveyFirst'
    BY <1>2, <2>0, <2>1, ProceedMoves DEF WakeLockAnswered, AnalysisInv, RunTypes, SurveyFirst
  <2>3. \A q \in Runs, i \in 1..N : Waited(q, i)' => Waited(q, i)
    BY <2>0, <2>1, ProceedMoves DEF Waited
  <2> QED
    BY <1>2, <2>2, <2>3, StillTold DEF WakeLockAnswered
<1>3. ASSUME NEW ok \in BOOLEAN, Connected(r, ok)
      PROVE  RunTypes' /\ ToldAfterWait' /\ SurveyFirst'
  <2>1. CASE ok
    <3>1. /\ pc' \in [Runs -> InFlight \cup Ended \cup {"new"}]
          /\ pos' \in [Runs -> 1..N]
          /\ \A q \in Runs \ {r} : pc'[q] = pc[q] /\ pos'[q] = pos[q]
          /\ pc'[r] \in {"aborted", "connect"} \/ (pc'[r] = "channel" /\ pos'[r] = 1)
      <4>1. CASE pos[r] < N
        <5>1. Proceed(r, "connect", pos[r] + 1)
          BY <1>3, <2>1, <4>1 DEF Connected
        <5>2. pos[r] + 1 \in 1..N /\ "connect" \in InFlight
          BY <1>0, <4>1 DEF InFlight
        <5> QED
          BY <5>1, <5>2, ProceedMoves
      <4>2. CASE ~(pos[r] < N)
        <5>1. Proceed(r, "channel", 1)
          BY <1>3, <2>1, <4>2 DEF Connected
        <5>2. 1 \in 1..N /\ "channel" \in InFlight
          BY DEF InFlight
        <5> QED
          BY <5>1, <5>2, ProceedMoves
      <4> QED
        BY <4>1, <4>2
    <3>2. RunTypes' /\ SurveyFirst'
      BY <1>0, <1>3, <2>1, <3>1 DEF Connected, AnalysisInv, RunTypes, SurveyFirst
    <3>3. \A q \in Runs, j \in 1..N : Waited(q, j)' => Waited(q, j)
      BY <3>1 DEF Waited
    <3> QED
      BY <1>3, <3>2, <3>3, StillTold DEF Connected
  <2>2. CASE ~ok
    <3>1. RunTypes' /\ SurveyFirst'
      BY <1>3, <2>2 DEF Connected, AnalysisInv, RunTypes, SurveyFirst, Ended
    <3>2. \A q \in Runs, j \in 1..N : Waited(q, j)' => Waited(q, j)
      BY <1>3, <2>2 DEF Connected, Waited, AnalysisInv, RunTypes
    <3> QED
      BY <1>3, <3>1, <3>2, StillTold DEF Connected
  <2> QED
    BY <2>1, <2>2
<1>4. CASE ChannelAwaited(r)
  <2> DEFINE c == <<r, pos[r]>>
  <2>1. /\ delivered' \in [Connections -> SUBSET {"survey", "work"}]
        /\ \A d \in Connections : delivered[d] \subseteq delivered'[d]
        /\ SurveyFirst'
    <3>1. CASE channel[c] = "open"
      <4>1. delivered' = Sent("survey", {c})
        BY <1>4, <3>1 DEF ChannelAwaited
      <4> QED
        BY <1>0, <4>1, SentInOrder
    <3>2. CASE channel[c] # "open"
      BY <1>4, <3>2 DEF ChannelAwaited, AnalysisInv, RunTypes, SurveyFirst
    <3> QED
      BY <3>1, <3>2
  <2>2. failed \subseteq failed' /\ (c \in failed' \/ "survey" \in delivered'[c])
    BY <1>0, <1>4 DEF ChannelAwaited, Sent, CanSend
  <2>3. PICK phase \in InFlight, i \in 1..N :
          Proceed(r, phase, i) /\ \/ phase = "channel" /\ i = pos[r] + 1
                                  \/ phase = "server" /\ pos[r] = N
    BY <1>0, <1>4 DEF ChannelAwaited, InFlight
  <2>4. RunTypes'
    BY <1>4, <2>1, <2>3, ProceedMoves DEF ChannelAwaited, AnalysisInv, RunTypes
  <2>5. pc[r] = "channel"
    BY <1>4 DEF ChannelAwaited
  <2>6. \A q \in Runs, j \in 1..N : Waited(q, j)' => Waited(q, j) \/ <<q, j>> = c
    BY <1>0, <2>3, <2>5, ProceedMoves DEF Waited
  <2> QED
    BY <2>1, <2>2, <2>4, <2>6, StillTold
<1>5. ASSUME NEW cs \in SUBSET Connections, \A c \in cs : Told(c), delivered' = Sent("work", cs),
             pos' \in [Runs -> 1..N], pc' \in [Runs -> InFlight \cup Ended \cup {"new"}],
             UNCHANGED <<channel, failed>>, pc[r] \in {"server", "probe", "measure"},
             \A q \in Runs \ {r} : pc'[q] = pc[q] /\ pos'[q] = pos[q]
      PROVE  RunTypes' /\ ToldAfterWait' /\ SurveyFirst'
  <2>1. /\ delivered' \in [Connections -> SUBSET {"survey", "work"}]
        /\ \A d \in Connections : delivered[d] \subseteq delivered'[d]
        /\ SurveyFirst'
    BY <1>5, SentInOrder
  <2>2. \A q \in Runs, j \in 1..N : Waited(q, j)' => Waited(q, j)
    BY <1>5 DEF Waited
  <2> QED
    BY <1>5, <2>1, <2>2, StillTold DEF RunTypes, AnalysisInv
<1>6. \A i \in 1..N : pc[r] \in {"server", "probe", "measure"} => Told(<<r, i>>)
  BY DEF AnalysisInv, ToldAfterWait, Waited
<1>7. delivered = Sent("work", {})
  BY DEF Sent, AnalysisInv, RunTypes
<1>8. ASSUME NEW timeout \in BOOLEAN, ServerAwaited(r, timeout)
      PROVE  RunTypes' /\ ToldAfterWait' /\ SurveyFirst'
  <2>1. pc[r] = "server" /\ UNCHANGED <<channel, failed>>
    BY <1>8 DEF ServerAwaited
  <2>2. CASE abort
    BY <1>5, <1>7, <1>8, <2>1, <2>2 DEF ServerAwaited, AnalysisInv, RunTypes, Ended
  <2>3. CASE ~abort /\ skip[r]
    <3>1. <<r, 1>> \in Connections /\ Told(<<r, 1>>)
      BY <1>6, <2>1 DEF Connections
    <3>2. /\ pc' = [pc EXCEPT ![r] = "measure"] /\ pos' = pos
          /\ delivered' = Sent("work", {<<r, 1>>})
      BY <1>8, <2>3 DEF ServerAwaited, AskMeasuringTime
    <3>3. /\ pos' \in [Runs -> 1..N]
          /\ pc' \in [Runs -> InFlight \cup Ended \cup {"new"}]
          /\ \A q \in Runs \ {r} : pc'[q] = pc[q] /\ pos'[q] = pos[q]
      BY <3>2 DEF AnalysisInv, RunTypes, InFlight
    <3>4. {<<r, 1>>} \in SUBSET Connections /\ \A c \in {<<r, 1>>} : Told(c)
      BY <3>1
    <3> QED
      BY <1>5, <2>1, <3>2, <3>3, <3>4
  <2>4. CASE ~abort /\ ~skip[r]
    <3>1. TurnTo(r, RoundOver(r)) /\ RoundOver(r) \in SUBSET (1..N)
      BY <1>8, <2>4 DEF ServerAwaited, RoundOver, Usable
    <3>2. pos' \in [Runs -> 1..N] /\ \A q \in Runs \ {r} : pos'[q] = pos[q]
      BY <3>1, TurnsToConnection
    <3>3. pc' = [pc EXCEPT ![r] = "probe"] /\ delivered' = Sent("work", {})
      BY <1>7, <1>8, <2>4 DEF ServerAwaited
    <3>4. /\ pc' \in [Runs -> InFlight \cup Ended \cup {"new"}]
          /\ \A q \in Runs \ {r} : pc'[q] = pc[q]
      BY <3>3 DEF AnalysisInv, RunTypes, InFlight
    <3>5. {} \in SUBSET Connections /\ \A c \in {} : Told(c)
      OBVIOUS
    <3> QED
      BY <1>5, <2>1, <3>2, <3>3, <3>4, <3>5
  <2> QED
    BY <2>2, <2>3, <2>4
<1>9. CASE PathTest(r)
  <2>1. pc[r] = "probe" /\ UNCHANGED <<channel, failed>>
    BY <1>9 DEF PathTest
  <2>2. CASE abort
    BY <1>5, <1>7, <1>9, <2>1, <2>2 DEF PathTest, AnalysisInv, RunTypes, Ended
  <2>3. CASE ~abort
    <3>1. PICK is \in SUBSET (1..N) : TurnTo(r, is)
      <4> DEFINE later == {i \in Usable(r) : i > pos[r]}
      <4>1. later \in SUBSET (1..N) /\ RoundOver(r) \in SUBSET (1..N)
        BY DEF RoundOver, Usable
      <4>2. TurnTo(r, later) \/ TurnTo(r, RoundOver(r))
        BY <1>9, <2>3 DEF PathTest
      <4> QED
        BY <4>1, <4>2
    <3>2. pos' \in [Runs -> 1..N] /\ \A q \in Runs \ {r} : pos'[q] = pos[q]
      BY <3>1, TurnsToConnection
    <3>3. PICK cs \in SUBSET Connections : (\A c \in cs : Told(c)) /\ delivered' = Sent("work", cs)
      BY <1>0, <1>6, <1>7, <1>9, <2>1, <2>3 DEF PathTest
    <3> QED
      BY <1>5, <1>9, <2>1, <2>3, <3>2, <3>3 DEF PathTest, AnalysisInv, RunTypes
  <2> QED
    BY <2>2, <2>3
<1>10. CASE PathTestsOver(r)
  <2>1. pc[r] = "probe" /\ UNCHANGED <<channel, failed>>
    BY <1>10 DEF PathTestsOver
  <2>2. <<r, 1>> \in Connections /\ Told(<<r, 1>>)
    BY <1>6, <2>1 DEF Connections
  <2>3. /\ pc' = [pc EXCEPT ![r] = "measure"] /\ pos' = pos
        /\ delivered' = Sent("work", {<<r, 1>>})
    BY <1>10 DEF PathTestsOver, AskMeasuringTime
  <2>4. /\ pos' \in [Runs -> 1..N]
        /\ pc' \in [Runs -> InFlight \cup Ended \cup {"new"}]
        /\ \A q \in Runs \ {r} : pc'[q] = pc[q] /\ pos'[q] = pos[q]
    BY <2>3 DEF AnalysisInv, RunTypes, InFlight
  <2>5. {<<r, 1>>} \in SUBSET Connections /\ \A c \in {<<r, 1>>} : Told(c)
    BY <2>2
  <2> QED
    BY <1>5, <2>1, <2>3, <2>4, <2>5
<1>11. CASE Measure(r)
  <2>1. pc[r] = "measure" /\ UNCHANGED <<channel, failed>>
    BY <1>11 DEF Measure
  <2>2. CASE abort
    BY <1>5, <1>7, <1>11, <2>1, <2>2 DEF Measure, AnalysisInv, RunTypes, Ended
  <2>3. CASE ~abort
    <3> DEFINE mine == {<<r, i>> : i \in 1..N}
    <3>1. mine \in SUBSET Connections /\ \A c \in mine : Told(c)
      BY <1>6, <2>1 DEF Connections
    <3>2. delivered' = Sent("work", mine) /\ pc' = [pc EXCEPT ![r] = "done"]
      BY <1>11, <2>3 DEF Measure, StartMeasuring
    <3> QED
      BY <1>5, <1>11, <2>1, <3>1, <3>2 DEF Measure, AnalysisInv, RunTypes, Ended
  <2> QED
    BY <2>2, <2>3
<1> QED
  BY <1>1, <1>2, <1>3, <1>4, <1>8, <1>9, <1>10, <1>11 DEF RunStep

\* A run's step starts measuring only where everything is registered.
LEMMA RunStepLeavesNothing ==
  ASSUME AnalysisInv, NEW r \in Runs, RunStep(r)
  PROVE  NothingLeftBehind'
<1> USE SurveyAssumption DEF connVars, pageVars
<1>1. CASE Measure(r) /\ ~abort
  <2>1. /\ pc' = [pc EXCEPT ![r] = "done"] /\ active' = TRUE /\ channel' = channel
        /\ peers' = peers \cup {<<r, i>> : i \in 1..N}
    BY <1>1 DEF Measure, StartMeasuring
  <2> QED
    BY <2>1 DEF AnalysisInv, RunTypes, NothingLeftBehind
<1>2. CASE ~(Measure(r) /\ ~abort)
  <2> DEFINE Keeps == /\ UNCHANGED <<active, intervals, peers>>
                      /\ \A q \in Runs : pc'[q] = "done" => pc[q] = "done"
                      /\ \A q \in Runs, i \in 1..N :
                           pc[q] = "done" => channel'[<<q, i>>] = channel[<<q, i>>]
  <2>1. ASSUME ConfigFetched(r) \/ PathTestsOver(r) PROVE Keeps
    BY <2>1 DEF ConfigFetched, PathTestsOver, AskMeasuringTime, AnalysisInv, RunTypes
  <2>2. ASSUME NEW granted \in BOOLEAN, WakeLockAnswered(r, granted) PROVE Keeps
    BY <2>2 DEF WakeLockAnswered, Proceed, AnalysisInv, RunTypes
  <2>3. ASSUME NEW ok \in BOOLEAN, Connected(r, ok) PROVE Keeps
    BY <2>3 DEF Connected, Proceed, AnalysisInv, RunTypes, Connections
  <2>4. ASSUME ChannelAwaited(r) PROVE Keeps
    BY <2>4 DEF ChannelAwaited, Proceed, AnalysisInv, RunTypes
  <2>5. ASSUME NEW timeout \in BOOLEAN, ServerAwaited(r, timeout) PROVE Keeps
    BY <2>5 DEF ServerAwaited, AskMeasuringTime, AnalysisInv, RunTypes
  <2>6. ASSUME PathTest(r) PROVE Keeps
    BY <2>6 DEF PathTest, AnalysisInv, RunTypes
  <2>7. ASSUME Measure(r) PROVE Keeps
    BY <1>2, <2>7 DEF Measure, AnalysisInv, RunTypes
  <2>8. Keeps
    BY <2>1, <2>2, <2>3, <2>4, <2>5, <2>6, <2>7 DEF RunStep
  <2> QED
    BY <2>8 DEF AnalysisInv, NothingLeftBehind
<1> QED
  BY <1>1, <1>2

\* The buttons, the page's visibility and the network change no run's place.
LEMMA PageStep ==
  ASSUME AnalysisInv, \/ Stop \/ Hidden
                      \/ \E c \in Connections : ChannelOpens(c) \/ ChannelBreaks(c) \/ ServerReady(c)
  PROVE  AnalysisInv'
<1> USE DEF runVars, pageVars
<1>1. ASSUME UNCHANGED <<pc, pos, failed, delivered>>,
             channel' \in [Connections -> {"none", "connecting", "open", "closed"}]
      PROVE  RunTypes' /\ ToldAfterWait' /\ SurveyFirst'
  BY <1>1 DEF AnalysisInv, RunTypes, ToldAfterWait, Waited, Told, SurveyFirst
<1>2. ASSUME StopTesting, UNCHANGED <<pc, pos, failed, delivered>> PROVE AnalysisInv'
  <2>1. channel' \in [Connections -> {"none", "connecting", "open", "closed"}]
    BY <1>2 DEF StopTesting, AnalysisInv, RunTypes
  <2>2. NothingLeftBehind'
    BY <1>2 DEF StopTesting, AnalysisInv, NothingLeftBehind, Connections
  <2> QED
    BY <1>1, <1>2, <2>1, <2>2 DEF AnalysisInv
<1>3. CASE Stop
  BY <1>2, <1>3 DEF Stop
<1>4. CASE Hidden
  <2>1. CASE active
    BY <1>2, <1>4, <2>1 DEF Hidden
  <2>2. CASE ~active
    <3>1. UNCHANGED <<active, peers, intervals, pc, pos, channel, failed, delivered>>
      BY <1>4, <2>2 DEF Hidden
    <3> QED
      BY <1>1, <3>1 DEF AnalysisInv, RunTypes, NothingLeftBehind
  <2> QED
    BY <2>1, <2>2
<1>5. ASSUME NEW c \in Connections, ChannelOpens(c) \/ ChannelBreaks(c) \/ ServerReady(c)
      PROVE  AnalysisInv'
  <2>1. /\ UNCHANGED <<active, peers, intervals, pc, pos, failed, delivered>>
        /\ channel' \in [Connections -> {"none", "connecting", "open", "closed"}]
        /\ \A d \in Connections : channel'[d] # "closed" => channel[d] # "closed"
    BY <1>5 DEF ChannelOpens, ChannelBreaks, ServerReady, AnalysisInv, RunTypes
  <2> QED
    BY <1>1, <2>1 DEF AnalysisInv, NothingLeftBehind, Connections
<1> QED
  BY <1>3, <1>4, <1>5

\* Every step of an analysis, a button or the network preserves the invariant.
LEMMA AnalysisInvNext == AnalysisInv /\ [SurveyNext]_surveyVars => AnalysisInv'
<1> SUFFICES ASSUME AnalysisInv, [SurveyNext]_surveyVars PROVE AnalysisInv'
  OBVIOUS
<1>1. ASSUME NEW r \in Runs, NEW skipPathTests \in BOOLEAN, Analyze(r, skipPathTests)
      PROVE  AnalysisInv'
  BY <1>1 DEF Analyze, connVars, AnalysisInv, RunTypes, ToldAfterWait, Waited, Told, SurveyFirst,
     NothingLeftBehind, InFlight
<1>2. ASSUME NEW r \in Runs, RunStep(r) PROVE AnalysisInv'
  BY <1>2, RunStepKeepsOrder, RunStepLeavesNothing DEF AnalysisInv
<1>3. CASE UNCHANGED surveyVars
  BY <1>3 DEF surveyVars, AnalysisInv, RunTypes, ToldAfterWait, Waited, Told, SurveyFirst,
     NothingLeftBehind
<1> QED
  BY <1>1, <1>2, <1>3, PageStep DEF SurveyNext

\* For any number of analyses and connections: what the server is asked on a
\* connection comes after its survey session (webrtc.rs,
\* send_control_message), and nothing a completed analysis opened outlives
\* the tests (lib.rs, stop_testing).
THEOREM AnalysisInvariant == SurveySpec => []AnalysisInv
  BY AnalysisInvInit, AnalysisInvNext, PTL DEF SurveySpec

\* The server hears of a survey before anything else, on every connection.
THEOREM AlwaysSurveyFirst == SurveySpec => []SurveyFirst
<1>1. AnalysisInv => SurveyFirst
  BY DEF AnalysisInv
<1> QED
  BY <1>1, AnalysisInvariant, PTL

\* Stop reaches every connection and timer of every completed analysis.
THEOREM NothingStaysBehind == SurveySpec => []NothingLeftBehind
<1>1. AnalysisInv => NothingLeftBehind
  BY DEF AnalysisInv
<1> QED
  BY <1>1, AnalysisInvariant, PTL

-----------------------------------------------------------------------------
(* The recorder *)

RecorderTypes ==
  /\ source_type \in Modes
  /\ streams = Nothing \/ streams \in [start : Starts, mode : Modes]
  /\ recorder = Nothing \/ recorder \in [start : Starts, js : {"inactive", "running", "gone"}]
  /\ manager = Nothing \/ manager \in [start : Starts, motion : SUBSET (1..MaxEvents)]
  /\ taken = Nothing \/ taken \in Recordings
  /\ task \in [Tasks -> StartingAt \cup {"new", "encoding", "saving", "ok", "err", "panicked"}]
  /\ borrowed \in Tasks \cup {Nothing}
  /\ arrived \in 0..MaxEvents
  /\ began \in [Starts -> 0..MaxEvents]
  /\ \A t \in Starts : began[t] <= arrived

Running == recorder # Nothing /\ recorder.js = "running"

\* A task is past its first await of the state exactly while it has borrowed
\* it, so that there is at most one; what is taken is taken by a saving task.
Exclusive ==
  /\ \A t \in Tasks : task[t] \in {"streams", "video", "encoding", "saving"} <=> borrowed = t
  /\ taken # Nothing => borrowed # Nothing /\ task[borrowed] = "saving"
  /\ \A t \in Tasks : task[t] = "encoding" => Running

\* From the moment the streams are there to the end of the recording the mode
\* is the one of the streams.
ModeKept ==
  /\ Running => recording_ui
  /\ Running \/ (\E t \in Tasks : task[t] = "video") =>
       streams # Nothing /\ streams.mode = source_type

\* The manager has every event since its start, unless a stop emptied it: then
\* nobody listens, and it is replaced before anybody does.
ManagerWhole ==
  manager # Nothing =>
    \/ manager.motion = (began[manager.start] + 1)..arrived
    \/ manager.motion = {} /\ ~listeners /\ borrowed = Nothing /\ recorder = Nothing

\* The manager is the starting task's, then the recorder's.
ManagerOwned ==
  /\ \A t \in Tasks : task[t] \in {"streams", "video"} => manager # Nothing /\ manager.start = t
  /\ Running /\ manager # Nothing
       /\ (\A t \in Tasks : task[t] \notin {"streams", "video"}) => manager.start = recorder.start

TakenPast == taken # Nothing => taken.motion \subseteq 1..arrived

RecorderInv ==
  /\ RecorderTypes /\ Exclusive /\ ModeKept /\ ManagerWhole /\ ManagerOwned
  /\ TakenPast /\ SavedAsRecorded /\ SensorsReleased

\* Intervals of events.
LEMMA Intervals ==
  /\ \A n \in Nat : (n + 1)..n = {}
  /\ \A a, n \in Nat : a <= n => (a + 1)..(n + 1) = ((a + 1)..n) \cup {n + 1}
  OBVIOUS

\* The recorder starts idle, with nothing borrowed and nothing taken.
LEMMA RecorderInvInit == RecorderInit => RecorderInv
<1> SUFFICES ASSUME RecorderInit PROVE RecorderInv
  OBVIOUS
<1>1. RecorderTypes
  BY RecorderAssumption DEF RecorderInit, RecorderTypes, Modes, Tasks, StartingAt
<1>2. Exclusive
  BY RecorderAssumption DEF RecorderInit, Exclusive, Tasks, Running
<1> QED
  BY <1>1, <1>2 DEF RecorderInit, RecorderInv, ModeKept, Running, ManagerWhole, ManagerOwned, TakenPast,
     SavedAsRecorded, SensorsReleased, Tasks, StartingAt

\* Pressing Start preserves the invariant: it only waits for a permission.
LEMMA PressStartKeeps ==
  ASSUME RecorderInv, NEW t \in Starts, PressStart(t)
  PROVE  RecorderInv'
<1> USE RecorderAssumption DEF RecorderInv, RecorderTypes, stateVars, sensorVars
<1>1. RecorderTypes'
  BY DEF PressStart, To, Recordings, Modes, StartingAt, Tasks
<1>2. Exclusive'
  BY DEF PressStart, To, Exclusive, Running, StartingAt, Tasks
<1>3. ModeKept'
  BY DEF PressStart, To, ModeKept, Running, Tasks
<1>4. ManagerWhole'
  BY DEF PressStart, To, ManagerWhole, Tasks
<1>5. ManagerOwned'
  BY DEF PressStart, To, ManagerOwned, Running, Tasks
<1>6. TakenPast'
  BY DEF PressStart, To, TakenPast, Recordings
<1>7. SavedAsRecorded'
  BY DEF PressStart, To, SavedAsRecorded, Recordings
<1>8. SensorsReleased'
  BY DEF PressStart, To, SensorsReleased, Tasks, StartingAt
<1> QED
  BY <1>1, <1>2, <1>3, <1>4, <1>5, <1>6, <1>7, <1>8

\* So does the answer to the permission request: a start that finds the state
\* borrowed panics, the other one owns a new sensor manager.
LEMMA PermissionAnsweredKeeps ==
  ASSUME RecorderInv, NEW t \in Starts, NEW granted \in BOOLEAN, PermissionAnswered(t, granted)
  PROVE  RecorderInv'
<1> USE RecorderAssumption DEF RecorderInv, RecorderTypes, stateVars, sensorVars
<1>1. RecorderTypes'
  BY DEF PermissionAnswered, NewManager, To, Recordings, Modes, StartingAt, Tasks
<1>2. Exclusive'
  BY DEF PermissionAnswered, NewManager, To, Exclusive, Running, StartingAt, Tasks
<1>3. ModeKept'
  BY DEF PermissionAnswered, NewManager, To, ModeKept, Running, Tasks
<1>4. ManagerWhole'
  <2>1. CASE borrowed # Nothing
    BY <2>1 DEF PermissionAnswered, ManagerWhole
  <2>2. CASE borrowed = Nothing
    <3>1. manager' = [start |-> t, motion |-> {}] /\ began'[t] = arrived /\ arrived' = arrived
      BY <2>2 DEF PermissionAnswered, NewManager
    <3>2. (arrived + 1)..arrived = {}
      BY Intervals
    <3> QED
      BY <3>1, <3>2 DEF ManagerWhole
  <2> QED
    BY <2>1, <2>2
<1>5. ManagerOwned'
  BY DEF PermissionAnswered, NewManager, To, ManagerOwned, Running, Tasks, Exclusive
<1>6. TakenPast'
  BY DEF PermissionAnswered, NewManager, To, TakenPast, Recordings
<1>7. SavedAsRecorded'
  BY DEF PermissionAnswered, NewManager, To, SavedAsRecorded, Recordings, Exclusive
<1>8. SensorsReleased'
  BY DEF PermissionAnswered, NewManager, To, SensorsReleased, Tasks, StartingAt
<1> QED
  BY <1>1, <1>2, <1>3, <1>4, <1>5, <1>6, <1>7, <1>8

\* So do media streams that are granted or refused.
LEMMA StreamsAnsweredKeeps ==
  ASSUME RecorderInv, NEW t \in Starts, NEW granted \in BOOLEAN, StreamsAnswered(t, granted)
  PROVE  RecorderInv'
<1> USE RecorderAssumption DEF RecorderInv, RecorderTypes, stateVars, sensorVars
<1>1. RecorderTypes'
  BY DEF StreamsAnswered, StartFails, To, Recordings, Modes, StartingAt, Tasks
<1>2. Exclusive'
  BY DEF StreamsAnswered, StartFails, To, Exclusive, Running, StartingAt, Tasks
<1>3. ModeKept'
  BY DEF StreamsAnswered, StartFails, To, ModeKept, Running, Tasks
<1>4. ManagerWhole'
  BY DEF StreamsAnswered, StartFails, To, ManagerWhole, Tasks
<1>5. ManagerOwned'
  BY DEF StreamsAnswered, StartFails, To, ManagerOwned, Running, Tasks
<1>6. TakenPast'
  BY DEF StreamsAnswered, StartFails, To, TakenPast, Recordings
<1>7. SavedAsRecorded'
  BY DEF StreamsAnswered, StartFails, To, SavedAsRecorded, Recordings, Exclusive, Tasks
<1>8. SensorsReleased'
  BY DEF StreamsAnswered, StartFails, To, SensorsReleased, Tasks, StartingAt
<1> QED
  BY <1>1, <1>2, <1>3, <1>4, <1>5, <1>6, <1>7, <1>8

\* So does the media recorder, whether it starts or fails to.
LEMMA VideoReadyKeeps ==
  ASSUME RecorderInv, NEW t \in Starts, VideoReady(t)
  PROVE  RecorderInv'
<1> USE RecorderAssumption DEF RecorderInv, RecorderTypes, stateVars, sensorVars
<1>1. RecorderTypes'
  BY DEF VideoReady, StartFails, To, Recordings, Modes, StartingAt, Tasks
<1>2. Exclusive'
  BY DEF VideoReady, StartFails, To, Exclusive, Running, StartingAt, Tasks
<1>3. ModeKept'
  BY DEF VideoReady, StartFails, To, ModeKept, Running, Tasks
<1>4. ManagerWhole'
  BY DEF VideoReady, StartFails, To, ManagerWhole, Tasks, Exclusive
<1>5. ManagerOwned'
  BY DEF VideoReady, StartFails, To, ManagerOwned, Running, Tasks
<1>6. TakenPast'
  BY DEF VideoReady, StartFails, To, TakenPast, Recordings
<1>7. SavedAsRecorded'
  BY DEF VideoReady, StartFails, To, SavedAsRecorded, Recordings
<1>8. SensorsReleased'
  BY DEF VideoReady, StartFails, To, SensorsReleased, Tasks, StartingAt
<1> QED
  BY <1>1, <1>2, <1>3, <1>4, <1>5, <1>6, <1>7, <1>8

\* So does pressing Stop, also while another task holds the state.
LEMMA PressStopKeeps ==
  ASSUME RecorderInv, NEW t \in Stops, PressStop(t)
  PROVE  RecorderInv'
<1> USE RecorderAssumption DEF RecorderInv, RecorderTypes, stateVars, sensorVars
<1>1. RecorderTypes'
  BY DEF PressStop, To, Recordings, Modes, StartingAt, Tasks
<1>2. Exclusive'
  BY DEF PressStop, To, Exclusive, Running, StartingAt, Tasks
<1>3. ModeKept'
  BY DEF PressStop, To, ModeKept, Running, Tasks
<1>4. ManagerWhole'
  BY DEF PressStop, To, ManagerWhole, Tasks
<1>5. ManagerOwned'
  BY DEF PressStop, To, ManagerOwned, Running, Tasks
<1>6. TakenPast'
  BY DEF PressStop, To, TakenPast, Recordings
<1>7. SavedAsRecorded'
  BY DEF PressStop, To, SavedAsRecorded, Recordings
<1>8. SensorsReleased'
  BY DEF PressStop, To, SensorsReleased, Tasks, StartingAt
<1> QED
  BY <1>1, <1>2, <1>3, <1>4, <1>5, <1>6, <1>7, <1>8

\* So does collecting what is to be saved: it is the running recording's own.
LEMMA EncodedKeeps ==
  ASSUME RecorderInv, NEW t \in Stops, Encoded(t)
  PROVE  RecorderInv'
<1> USE RecorderAssumption DEF RecorderInv, RecorderTypes, stateVars, sensorVars
<1>1. RecorderTypes'
  BY DEF Encoded, To, Recordings, Modes, StartingAt, Tasks, Exclusive, Running
<1>2. Exclusive'
  BY DEF Encoded, To, Exclusive, Running, StartingAt, Tasks
<1>3. ModeKept'
  BY DEF Encoded, To, ModeKept, Running, Tasks
<1>4. ManagerWhole'
  BY DEF Encoded, To, ManagerWhole, Tasks, Exclusive
<1>5. ManagerOwned'
  BY DEF Encoded, To, ManagerOwned, Running, Tasks
<1>6. TakenPast'
  BY DEF Encoded, To, TakenPast, Recordings, Exclusive, ManagerWhole, Running, Tasks
<1>7. SavedAsRecorded'
  BY DEF Encoded, To, SavedAsRecorded, Recordings, Exclusive, ModeKept, ManagerWhole,
     ManagerOwned, Running, Tasks
<1>8. SensorsReleased'
  BY DEF Encoded, To, SensorsReleased, Tasks, StartingAt
<1> QED
  BY <1>1, <1>2, <1>3, <1>4, <1>5, <1>6, <1>7, <1>8

\* So does the answer of the database, whether the recording was stored or not.
LEMMA StoreAnsweredKeeps ==
  ASSUME RecorderInv, NEW t \in Stops, NEW ok \in BOOLEAN, StoreAnswered(t, ok)
  PROVE  RecorderInv'
<1> USE RecorderAssumption DEF RecorderInv, RecorderTypes, stateVars, sensorVars
<1>1. RecorderTypes'
  BY DEF StoreAnswered, To, Recordings, Modes, StartingAt, Tasks
<1>2. Exclusive'
  BY DEF StoreAnswered, To, Exclusive, Running, StartingAt, Tasks
<1>3. ModeKept'
  BY DEF StoreAnswered, To, ModeKept, Running, Tasks, Exclusive
<1>4. ManagerWhole'
  BY DEF StoreAnswered, To, ManagerWhole, Tasks
<1>5. ManagerOwned'
  BY DEF StoreAnswered, To, ManagerOwned, Running, Tasks
<1>6. TakenPast'
  BY DEF StoreAnswered, To, TakenPast, Recordings
<1>7. SavedAsRecorded'
  BY DEF StoreAnswered, To, SavedAsRecorded, Recordings
<1>8. SensorsReleased'
  BY DEF StoreAnswered, To, SensorsReleased, Tasks, StartingAt
<1> QED
  BY <1>1, <1>2, <1>3, <1>4, <1>5, <1>6, <1>7, <1>8

\* So does a motion event: it extends the current manager's data without a gap.
LEMMA MotionKeeps ==
  ASSUME RecorderInv, Motion
  PROVE  RecorderInv'
<1> USE RecorderAssumption DEF RecorderInv, RecorderTypes, stateVars, sensorVars
<1>1. RecorderTypes'
  BY DEF Motion, Recordings, Modes, StartingAt, Tasks
<1>2. Exclusive'
  BY DEF Motion, Exclusive, Running, StartingAt, Tasks
<1>3. ModeKept'
  BY DEF Motion, ModeKept, Running, Tasks
<1>4. ManagerWhole'
  <2> SUFFICES ASSUME manager' # Nothing PROVE ManagerWhole'
    BY DEF ManagerWhole
  <2> DEFINE b == began[manager.start]
  <2>1. /\ manager # Nothing /\ manager' = [manager EXCEPT !.motion = @ \cup {arrived + 1}]
        /\ listeners /\ arrived' = arrived + 1 /\ began' = began
    BY DEF Motion
  <2>2. b \in Nat /\ arrived \in Nat /\ b <= arrived
    BY <2>1
  <2>3. manager.motion = (b + 1)..arrived
    BY <2>1 DEF ManagerWhole
  <2>4. manager'.start = manager.start /\ manager'.motion = manager.motion \cup {arrived + 1}
    BY <2>1
  <2>5. (b + 1)..(arrived + 1) = ((b + 1)..arrived) \cup {arrived + 1}
    BY <2>2, Intervals
  <2> QED
    BY <2>1, <2>3, <2>4, <2>5 DEF ManagerWhole
<1>5. ManagerOwned'
  BY DEF Motion, ManagerOwned, Running, Tasks
<1>6. TakenPast'
  BY DEF Motion, TakenPast, Recordings
<1>7. SavedAsRecorded'
  BY DEF Motion, SavedAsRecorded, Recordings, TakenPast
<1>8. SensorsReleased'
  BY DEF Motion, SensorsReleased, Tasks, StartingAt
<1> QED
  BY <1>1, <1>2, <1>3, <1>4, <1>5, <1>6, <1>7, <1>8

\* So does the mode control, which works only while nothing is borrowed.
LEMMA SetModeKeeps ==
  ASSUME RecorderInv, NEW mode \in Modes, SetMode(mode)
  PROVE  RecorderInv'
<1> USE RecorderAssumption DEF RecorderInv, RecorderTypes, stateVars, sensorVars
<1>1. RecorderTypes'
  BY DEF SetMode, CanSet, Recordings, Modes, StartingAt, Tasks
<1>2. Exclusive'
  BY DEF SetMode, CanSet, Exclusive, Running, StartingAt, Tasks
<1>3. ModeKept'
  BY DEF SetMode, CanSet, ModeKept, Running, Tasks, Exclusive
<1>4. ManagerWhole'
  BY DEF SetMode, CanSet, ManagerWhole, Tasks
<1>5. ManagerOwned'
  BY DEF SetMode, CanSet, ManagerOwned, Running, Tasks
<1>6. TakenPast'
  BY DEF SetMode, CanSet, TakenPast, Recordings
<1>7. SavedAsRecorded'
  BY DEF SetMode, CanSet, SavedAsRecorded, Recordings
<1>8. SensorsReleased'
  BY DEF SetMode, CanSet, SensorsReleased, Tasks, StartingAt
<1> QED
  BY <1>1, <1>2, <1>3, <1>4, <1>5, <1>6, <1>7, <1>8

\* So does deleting a stored recording.
LEMMA DeleteRecordingKeeps ==
  ASSUME RecorderInv, NEW t \in saved, DeleteRecording(t)
  PROVE  RecorderInv'
<1> USE RecorderAssumption DEF RecorderInv, RecorderTypes, stateVars, sensorVars
<1>1. RecorderTypes'
  BY DEF DeleteRecording, Recordings, Modes, StartingAt, Tasks
<1>2. Exclusive'
  BY DEF DeleteRecording, Exclusive, Running, StartingAt, Tasks
<1>3. ModeKept'
  BY DEF DeleteRecording, ModeKept, Running, Tasks
<1>4. ManagerWhole'
  BY DEF DeleteRecording, ManagerWhole, Tasks
<1>5. ManagerOwned'
  BY DEF DeleteRecording, ManagerOwned, Running, Tasks
<1>6. TakenPast'
  BY DEF DeleteRecording, TakenPast, Recordings
<1>7. SavedAsRecorded'
  BY DEF DeleteRecording, SavedAsRecorded, Recordings
<1>8. SensorsReleased'
  BY DEF DeleteRecording, SensorsReleased, Tasks, StartingAt
<1> QED
  BY <1>1, <1>2, <1>3, <1>4, <1>5, <1>6, <1>7, <1>8

\* Every step of the recorder preserves the invariant.
LEMMA RecorderInvNext == RecorderInv /\ [RecorderNext]_recorderVars => RecorderInv'
<1> SUFFICES ASSUME RecorderInv, [RecorderNext]_recorderVars PROVE RecorderInv'
  OBVIOUS
<1>1. ASSUME NEW t \in Starts, StartStep(t) PROVE RecorderInv'
  BY <1>1, PressStartKeeps, PermissionAnsweredKeeps, StreamsAnsweredKeeps, VideoReadyKeeps
     DEF StartStep
<1>2. ASSUME NEW t \in Stops, StopStep(t) PROVE RecorderInv'
  BY <1>2, PressStopKeeps, EncodedKeeps, StoreAnsweredKeeps DEF StopStep
<1>3. CASE UNCHANGED recorderVars
  BY <1>3 DEF recorderVars, RecorderInv, RecorderTypes, Exclusive, ModeKept, Running, ManagerWhole,
     ManagerOwned, TakenPast, SavedAsRecorded, SensorsReleased
<1> QED
  BY <1>1, <1>2, <1>3, MotionKeeps, SetModeKeeps, DeleteRecordingKeeps DEF RecorderNext

\* For any number of presses of Start and Stop and any number of events, in
\* any order, with any of them failing or panicking (ui.rs,
\* setup_recording_buttons).
THEOREM RecorderInvariant == RecorderSpec => []RecorderInv
  BY RecorderInvInit, RecorderInvNext, PTL DEF RecorderSpec

\* What is saved has the mode and the motion data of its own recording
\* (state.rs, stop_recording).
THEOREM AlwaysSavedAsRecorded == RecorderSpec => []SavedAsRecorded
<1>1. RecorderInv => SavedAsRecorded
  BY DEF RecorderInv
<1> QED
  BY <1>1, RecorderInvariant, PTL

\* Nobody listens to the sensors without a recording to come or to finish
\* (ui.rs, setup_recording_buttons).
THEOREM SensorsAlwaysReleased == RecorderSpec => []SensorsReleased
<1>1. RecorderInv => SensorsReleased
  BY DEF RecorderInv
<1> QED
  BY <1>1, RecorderInvariant, PTL

-----------------------------------------------------------------------------
(* The set-up of a connection *)

\* The answer has what was gathered; once the client has it, nothing the polls
\* bring changes what the client knows, and no second answer is made.
PeerInv ==
  /\ ip_version \in Versions
  /\ gathered \subseteq Gatherable
  /\ storing \subseteq ServerHosts
  /\ answer \subseteq Gatherable
  /\ in_time => answer = Gatherable
  /\ posting \subseteq ClientHosts
  /\ \A c \in server_remote : KindOf[c] = ip_version
  /\ setup \in {"local", "established"} => handler = "answered"
  /\ client_remote = IF setup = "established" THEN answer ELSE {}

\* A filter lets through the addresses of the version asked for, no names
\* (server signaling.rs, client webrtc.rs).
LEMMA FilterFacts ==
  ASSUME ip_version \in Versions, NEW cs \in SUBSET (ServerHosts \cup ClientHosts)
  PROVE  Filtered(cs) = {c \in cs : KindOf[c] = ip_version}
  BY PeerAssumption DEF Filtered, Wanted, IsNameBasedCandidate, GetCandidateIpVersion, Versions

\* The client finds no candidate in a polled response.
LEMMA NothingPolled == \A cs : FromPoll(cs) = {}
  BY DEF FromPoll, JsonFields

\* Every step of either side preserves the invariant.
LEMMA PeerInvNext == PeerInv /\ [PeerNext]_peerVars => PeerInv'
<1> SUFFICES ASSUME PeerInv, [PeerNext]_peerVars PROVE PeerInv'
  OBVIOUS
<1> USE DEF PeerInv, Gatherable, offerVars, gatherVars, browserVars, remoteVars, pollVars, upVars,
            channelVars
<1>1. ASSUME NEW complete \in BOOLEAN, Answer(complete) PROVE PeerInv'
  <2>1. Filtered(gathered) = gathered
    <3>1. Filtered(gathered) = {c \in gathered : KindOf[c] = ip_version}
      BY FilterFacts
    <3> QED BY <3>1
  <2> QED BY <1>1, <2>1 DEF Answer
<1>2. CASE AnswerArrives
  BY <1>2 DEF AnswerArrives
<1>3. ASSUME NEW ok \in BOOLEAN, DescriptionsSet(ok) PROVE PeerInv'
  BY <1>3 DEF DescriptionsSet
<1>4. CASE PollServed
  BY <1>4 DEF PollServed
<1>5. CASE PollAgain
  BY <1>5 DEF PollAgain
<1>6. ASSUME NEW arrives \in BOOLEAN, PollEnds(arrives) PROVE PeerInv'
  BY <1>6, NothingPolled DEF PollEnds
<1>7. ASSUME NEW pair \in BOOLEAN, StatsRead(pair) PROVE PeerInv'
  BY <1>7 DEF StatsRead
<1>8. CASE ChannelOpened
  BY <1>8 DEF ChannelOpened
<1>9. CASE SendOffer \/ OfferFails
  BY <1>9 DEF SendOffer, OfferFails
<1>10. CASE SessionRemoved \/ GatheringDone
  BY <1>10 DEF SessionRemoved, GatheringDone
<1>11. ASSUME NEW h \in ServerHosts, Gather(h) \/ Store(h) PROVE PeerInv'
  BY <1>11 DEF Gather, Store
<1>12. ASSUME NEW h \in ClientHosts, Find(h) PROVE PeerInv'
  <2>1. Filtered({h}) \subseteq ClientHosts
    BY DEF Filtered
  <2> QED BY <1>12, <2>1 DEF Find
<1>13. ASSUME NEW h \in ClientHosts, NEW arrives \in BOOLEAN, PostEnds(h, arrives) PROVE PeerInv'
  <2>1. \A c \in Filtered({h}) : KindOf[c] = ip_version
    BY FilterFacts
  <2> QED BY <1>13, <2>1 DEF PostEnds
<1>14. CASE IceConnects \/ ConnectionConnects
  BY <1>14 DEF IceConnects, ConnectionConnects
<1>15. ASSUME NEW l \in Labels, ChannelAccepted(l) PROVE PeerInv'
  BY <1>15 DEF ChannelAccepted
<1>16. CASE UNCHANGED peerVars
  BY <1>16 DEF peerVars
<1> QED
  BY <1>1, <1>2, <1>3, <1>4, <1>5, <1>6, <1>7, <1>8, <1>9, <1>10, <1>11, <1>12, <1>13, <1>14,
     <1>15, <1>16 DEF PeerNext, PeerStep

\* For any hosts on either side: no peer is given a name or an address of the
\* other version, and a client whose server gathered in time knows every
\* address of the server, whichever requests and polls are lost
\* (signaling.rs, handle_offer and ice_candidate; webrtc.rs).
THEOREM CandidatesAlwaysKnown == PeerSpec => []CandidatesKnown
<1>1. PeerInit => PeerInv
  BY DEF PeerInit, PeerInv
<1>2. PeerInv => CandidatesKnown
  BY DEF PeerInv, CandidatesKnown, Gatherable
<1> QED BY <1>1, <1>2, PeerInvNext, PTL DEF PeerSpec

\* One reading of the statistics is ever begun, by the listener that raises the
\* flag.
ShownInv ==
  /\ reading \in Nat /\ shown \in Nat
  /\ reading + shown <= 1
  /\ ~addresses_updated => reading + shown = 0

\* The accept loop opens one channel before it takes the next, so that all but
\* the one being accepted are open.
ChannelsInv ==
  /\ opening \in Labels \cup {"none"}
  /\ chans \subseteq Labels
  /\ open = chans \ {opening}
  /\ opening # "none" => opening \in chans
  /\ ready_sent \in {0, 1}
  /\ ready_sent = 1 => chans = Labels
  /\ chans = Labels /\ opening \in Labels \ {"control"} => ready_sent = 1

\* The polling goes on below its limit only.
PollInv ==
  /\ poll_count \in Nat
  /\ setup \in {"new", "offered", "local"} => poll = "none" /\ poll_count = 0
  /\ PollsBounded
  /\ poll # "none" /\ ~should_stop => poll_count < MaxPolls
  /\ poll = "sleep" => ~should_stop

AnnounceInv == ShownInv /\ ChannelsInv /\ PollInv

\* Every step of either side preserves the three.
LEMMA AnnounceInvNext == AnnounceInv /\ [PeerNext]_peerVars => AnnounceInv'
<1> SUFFICES ASSUME AnnounceInv, [PeerNext]_peerVars PROVE AnnounceInv'
  OBVIOUS
<1>1. ShownInv /\ ChannelsInv /\ PollInv
  BY DEF AnnounceInv
<1>2. MaxPolls \in Int
  BY PeerAssumption DEF MaxPolls
<1>3. UNCHANGED <<addresses_updated, reading, shown>> => ShownInv'
  BY <1>1 DEF ShownInv
<1>4. UNCHANGED channelVars => ChannelsInv'
  BY <1>1 DEF ChannelsInv, channelVars
<1>5. UNCHANGED <<poll, poll_count, should_stop>> /\ (setup' \in {"new", "offered", "local"} => setup \in {"new", "offered", "local"})
      => PollInv'
  BY <1>1 DEF PollInv, PollsBounded, MaxPolls
<1>6. ASSUME BeginPoll, poll_count = 0 \/ poll_count < MaxPolls,
             setup' \notin {"new", "offered", "local"}
      PROVE  PollInv'
  <2>1. /\ poll' = "asked" /\ poll_count' = poll_count + 1
        /\ should_stop' = (CheckStopPolling \/ poll_count + 1 >= MaxPolls)
    BY <1>6 DEF BeginPoll, ShouldStop
  <2>2. poll_count \in Nat /\ MaxPolls' = MaxPolls
    BY <1>1 DEF PollInv, MaxPolls
  <2>3. ~should_stop' => poll_count' < MaxPolls
    <3>1. ~should_stop' => ~(poll_count + 1 >= MaxPolls)
      BY <2>1, Zenon
    <3> QED BY <1>2, <2>1, <2>2, <3>1
  <2>4. poll_count' <= MaxPolls \/ poll_count' <= 1
    BY <1>2, <1>6, <2>1, <2>2
  <2> QED BY <1>6, <2>1, <2>2, <2>3, <2>4 DEF PollInv, PollsBounded
<1>7. ASSUME Listener PROVE ShownInv'
  BY <1>1, <1>7 DEF Listener, ShownInv
<1> USE DEF offerVars, gatherVars, browserVars, remoteVars, upVars
<1>8. ASSUME NEW ok \in BOOLEAN, DescriptionsSet(ok) PROVE AnnounceInv'
  <2>1. ShownInv' /\ ChannelsInv'
    BY <1>3, <1>4, <1>8 DEF DescriptionsSet
  <2>2. CASE ok
    <3>1. setup = "local" /\ setup' = "established" /\ BeginPoll
      BY <1>8, <2>2 DEF DescriptionsSet
    <3>2. poll_count = 0
      BY <1>1, <3>1 DEF PollInv
    <3> QED BY <1>6, <2>1, <3>1, <3>2 DEF AnnounceInv
  <2>3. CASE ~ok
    <3>1. setup' = "failed" /\ UNCHANGED <<poll, poll_count, should_stop>>
      BY <1>8, <2>3 DEF DescriptionsSet, pollVars
    <3> QED BY <1>5, <2>1, <3>1 DEF AnnounceInv
  <2> QED BY <2>2, <2>3
<1>9. CASE PollServed
  BY <1>1, <1>3, <1>4, <1>9 DEF PollServed, PollInv, PollsBounded, MaxPolls, AnnounceInv
<1>10. CASE PollAgain
  <2>1. BeginPoll /\ poll = "sleep" /\ UNCHANGED setup
    BY <1>10 DEF PollAgain
  <2>2. poll_count < MaxPolls /\ setup' \notin {"new", "offered", "local"}
    BY <1>1, <2>1 DEF PollInv
  <2> QED BY <1>3, <1>4, <1>6, <1>10, <2>1, <2>2 DEF PollAgain, AnnounceInv
<1>11. ASSUME NEW arrives \in BOOLEAN, PollEnds(arrives) PROVE AnnounceInv'
  <2>1. PollInv'
    BY <1>1, <1>11 DEF PollEnds, PollInv, PollsBounded, MaxPolls
  <2> QED BY <1>3, <1>4, <1>11, <2>1 DEF PollEnds, AnnounceInv
<1>12. ASSUME NEW pair \in BOOLEAN, StatsRead(pair) PROVE AnnounceInv'
  <2>1. ShownInv'
    BY <1>1, <1>12 DEF StatsRead, ShownInv
  <2> QED BY <1>4, <1>5, <1>12, <2>1 DEF StatsRead, AnnounceInv, pollVars
<1>13. CASE IceConnects \/ ConnectionConnects
  BY <1>4, <1>5, <1>7, <1>13 DEF IceConnects, ConnectionConnects, AnnounceInv, pollVars
<1>14. ASSUME NEW l \in Labels, ChannelAccepted(l) PROVE AnnounceInv'
  <2>1. ChannelsInv'
    <3>1. /\ opening = "none" /\ l \notin chans /\ chans' = chans \cup {l} /\ opening' = l
          /\ ready_sent' = IF chans' = Labels /\ "control" \in open THEN ready_sent + 1 ELSE ready_sent
          /\ open' = open
      BY <1>14 DEF ChannelAccepted, AllReady
    <3>2. "none" \notin Labels /\ "control" \in Labels
      BY DEF Labels
    <3>3. open = chans /\ ready_sent = 0
      BY <1>1, <3>1, <3>2 DEF ChannelsInv
    <3>4. ready_sent' = IF chans' = Labels /\ "control" \in chans THEN 1 ELSE 0
      BY <3>1, <3>3
    <3>5. /\ chans' \subseteq Labels /\ opening' \in Labels /\ opening' \in chans'
          /\ open' = chans' \ {opening'}
      BY <1>1, <3>1, <3>3 DEF ChannelsInv
    <3>6. chans' = Labels /\ opening' # "control" => "control" \in chans
      BY <3>1, <3>2
    <3> QED BY <3>4, <3>5, <3>6 DEF ChannelsInv
  <2> QED BY <1>3, <1>5, <1>14, <2>1 DEF ChannelAccepted, AnnounceInv, pollVars
<1>15. CASE ChannelOpened
  <2>1. ChannelsInv'
    <3>1. "none" \notin Labels
      BY DEF Labels
    <3> QED BY <1>1, <1>15, <3>1 DEF ChannelOpened, ChannelsInv
  <2> QED BY <1>3, <1>5, <1>15, <2>1 DEF ChannelOpened, AnnounceInv, pollVars
<1>16. CASE SendOffer \/ OfferFails \/ AnswerArrives \/ \E complete \in BOOLEAN : Answer(complete)
  BY <1>3, <1>4, <1>5, <1>16 DEF SendOffer, OfferFails, AnswerArrives, Answer, AnnounceInv, pollVars
<1>17. CASE \/ SessionRemoved \/ GatheringDone
            \/ \E h \in ServerHosts : Gather(h) \/ Store(h)
            \/ \E h \in ClientHosts : Find(h) \/ \E arrives \in BOOLEAN : PostEnds(h, arrives)
  BY <1>3, <1>4, <1>5, <1>17 DEF SessionRemoved, GatheringDone, Gather, Store, Find, PostEnds,
     AnnounceInv, pollVars
<1>18. CASE UNCHANGED peerVars
  <2>1. UNCHANGED <<addresses_updated, reading, shown>> /\ UNCHANGED channelVars
        /\ UNCHANGED <<poll, poll_count, should_stop, setup>>
    BY <1>18 DEF peerVars, channelVars
  <2> QED BY <1>3, <1>4, <1>5, <2>1 DEF AnnounceInv
<1> QED BY <1>8, <1>9, <1>10, <1>11, <1>12, <1>13, <1>14, <1>15, <1>16, <1>17, <1>18
        DEF PeerNext, PeerStep

\* A connection starts with nothing shown, no channel and no poll.
LEMMA AnnounceInvInit == PeerInit => AnnounceInv
<1> SUFFICES ASSUME PeerInit PROVE AnnounceInv
  OBVIOUS
<1>1. ShownInv
  BY DEF PeerInit, ShownInv
<1>2. ChannelsInv
  BY DEF PeerInit, ChannelsInv, Labels
<1>3. PollInv
  BY DEF PeerInit, PollInv, PollsBounded
<1> QED BY <1>1, <1>2, <1>3 DEF AnnounceInv

\* Whatever the interleaving of the two listeners and the four channels, the
\* page is given the addresses once at most and the server announces itself
\* once at most, with all channels (webrtc.rs of client and server).
THEOREM AnnouncementsOnce == PeerSpec => []AnnouncedOnce
<1>1. AnnounceInv => AnnouncedOnce
  BY DEF AnnounceInv, ShownInv, ChannelsInv, AnnouncedOnce
<1> QED BY <1>1, AnnounceInvInit, AnnounceInvNext, PTL DEF PeerSpec

\* Whatever the sleep between two polls is set to, and however the connection
\* fares, the client asks no more often than its limit (webrtc.rs).
THEOREM PollsAreBounded == PeerSpec => []PollsBounded
<1>1. AnnounceInv => PollsBounded
  BY DEF AnnounceInv, PollInv
<1> QED BY <1>1, AnnounceInvInit, AnnounceInvNext, PTL DEF PeerSpec
=============================================================================
