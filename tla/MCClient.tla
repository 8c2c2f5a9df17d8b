------------------------------- MODULE MCClient -------------------------------
(***************************************************************************)
(* The browser client.  The analysis, the set-up of a connection and the   *)
(* recorder share no state the properties look at, so a behaviour exercises *)
(* one of them (focus): one analysis with everything that can happen to    *)
(* its channels, two analyses that overlap and skip their path tests, the  *)
(* set-up, or the recorder.                                                *)
(***************************************************************************)
EXTENDS ClientSurvey, BrowserRecorder, PeerSetup

CONSTANTS r1, r2, s1, s2, s3, p1, p2, a4, b4, a6, h4, h6, hn

MCKindOf == [h \in ServerHosts \cup ClientHosts |->
  IF h \in {a6, h6} THEN "ipv6" ELSE IF h = hn THEN "name" ELSE "ipv4"]

VARIABLE focus

clientVars == <<surveyVars, recorderVars, peerVars, focus>>

ClientInit == /\ SurveyInit /\ RecorderInit /\ PeerInit
              /\ focus \in {"one", "two", "peer", "recorder"}
              /\ focus # "peer" => ip_version = "ipv4"

AnalysisStep(r) == RunStep(r) /\ UNCHANGED <<recorderVars, peerVars, focus>>

\* The channels are accepted in the behaviours in which the browser finds no
\* candidate and the server's queue is settled: they do not look at either.
Apart == chans' # {} => found' = {} /\ storing' = {} /\ gathered' = Gatherable

PeerGoesOn == focus = "peer" /\ PeerStep /\ Apart /\ UNCHANGED <<surveyVars, recorderVars, focus>>

\* The presses of one button are interchangeable, and so are the analyses: each
\* kind comes in one order.
PressesInOrder == /\ task'[s2] # "new" => task'[s1] # "new"
                  /\ task'[s3] # "new" => task'[s2] # "new"
                  /\ task'[p2] # "new" => task'[p1] # "new"

AnalysesInOrder == pc'[r2] # "new" => pc'[r1] # "new"

Page == \/ \E skipPathTests \in BOOLEAN : focus = "one" /\ Analyze(r1, skipPathTests)
        \/ \E r \in Runs : focus = "two" /\ Analyze(r, TRUE)
        \/ focus \in {"one", "two"} /\ (Stop \/ Hidden)
        \/ \E c \in Connections : ChannelOpens(c)
        \/ \E c \in Connections : focus = "one" /\ (ChannelBreaks(c) \/ ServerReady(c))

ClientNext ==
  \/ \E r \in Runs : AnalysisStep(r)
  \/ Page /\ AnalysesInOrder /\ UNCHANGED <<recorderVars, peerVars, focus>>
  \/ focus = "recorder" /\ RecorderNext /\ PressesInOrder /\ UNCHANGED <<surveyVars, peerVars, focus>>
  \/ focus = "peer" /\ PeerNext /\ Apart /\ UNCHANGED <<surveyVars, recorderVars, focus>>

\* Every wait of an analysis has a deadline or is for an answer of the browser
\* (its configuration, a wake lock, an offer and its answer), and the event
\* loop gets to every callback; a request of the set-up ends, answered or not.
\* What the visitor and the network do is not forced.
ClientSpec == /\ ClientInit
              /\ [][ClientNext]_clientVars
              /\ \A r \in Runs : WF_clientVars(AnalysisStep(r))
              /\ WF_clientVars(PeerGoesOn)
=============================================================================
