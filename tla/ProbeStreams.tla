---------------------------- MODULE ProbeStreams ----------------------------
(***************************************************************************)
(* The measurement activities of one client session: the control channel   *)
(* handler that starts and stops them, the senders and the stats reporter  *)
(* it spawns, and the callback that stops them when the peer connection    *)
(* goes away.                                                              *)
(*                                                                         *)
(* The tasks are not kept anywhere: they are told to stop by two flags of  *)
(* MeasurementState, traffic_active and probe_streams_active, which each   *)
(* task looks at once per tick and which a later Start sets again.  A step *)
(* is what happens between two awaits or under one guard of                *)
(* measurement_state.  What the tasks send and compute is left out.        *)
(***************************************************************************)
EXTENDS Naturals

CONSTANTS MaxStarts,   \* bound on the Start messages of a session
          MaxPending   \* bound on state change callbacks that wait to run

ASSUME StreamsAssumption == MaxStarts \in Nat /\ MaxPending \in Nat

\* The probe and the bulk sender run the same loop, each on its own unreliable
\* channel: one traffic sender stands for both, and "probe" for the channels.
Channels == {"control", "probe"}
Starts == 1..MaxStarts

VARIABLES conn,      \* the peer connection: up, down (may recover) or closed
          pending,   \* callbacks of a lost connection that have not run yet
          open,      \* the data channels that are open
          traffic,   \* traffic_active
          streams,   \* probe_streams_active
          limit,     \* max_measuring_duration: none, or not yet / already over
          handler,   \* what the control channel's handler is doing
          started,   \* the Start messages handled so far
          sender,    \* where the traffic sender of each start is
          prober,    \* where the measurement probe sender of each start is
          reporter,  \* where the stats reporter of each start is
          late       \* history: traffic started after the last callback of a closed connection

taskVars == <<sender, prober, reporter>>
connVars == <<conn, pending, open>>
vars == <<connVars, traffic, streams, limit, handler, started, taskVars, late>>

Messages == {"StartServerTraffic", "StopServerTraffic", "StartProbeStreams", "StopProbeStreams"}
SenderLabels == {"none", "tick", "channel", "send", "ended"}
ReporterLabels == {"none", "tick", "channel", "time", "clear", "report", "ended"}
Alive(label) == label \notin {"none", "ended"}

TypeOK ==
  /\ conn \in {"up", "down", "closed"}
  /\ pending \in 0..MaxPending
  /\ open \in SUBSET Channels
  /\ traffic \in BOOLEAN
  /\ streams \in BOOLEAN
  /\ limit \in {"none", "running", "over"}
  /\ handler \in Messages \cup {"idle", "spawn_traffic", "spawn_streams"}
  /\ started \in 0..MaxStarts
  /\ sender \in [Starts -> SenderLabels]
  /\ prober \in [Starts -> SenderLabels]
  /\ reporter \in [Starts -> ReporterLabels]
  /\ late \in BOOLEAN

Init ==
  /\ conn = "up"
  /\ pending = 0
  /\ open = Channels
  /\ traffic = FALSE
  /\ streams = FALSE
  /\ limit = "none"
  /\ handler = "idle"
  /\ started = 0
  /\ sender = [n \in Starts |-> "none"]
  /\ prober = [n \in Starts |-> "none"]
  /\ reporter = [n \in Starts |-> "none"]
  /\ late = FALSE

-----------------------------------------------------------------------------
(* The control channel's handler takes one message at a time. *)

\* A message for this connection; its survey id is stored first.
Receive(m) ==
  /\ handler = "idle"
  /\ "control" \in open
  /\ m \in {"StartServerTraffic", "StartProbeStreams"} => started < MaxStarts
  /\ handler' = m
  /\ UNCHANGED <<connVars, traffic, streams, limit, started, taskVars, late>>

\* The flag is set and the earlier measurements are cleared.
StartServerTraffic ==
  /\ handler = "StartServerTraffic"
  /\ traffic' = TRUE
  /\ started' = started + 1
  /\ late' = (late \/ (conn = "closed" /\ pending = 0))
  /\ handler' = "spawn_traffic"
  /\ UNCHANGED <<connVars, streams, limit, taskVars>>

\* The metrics have been reset: the senders are spawned.
SpawnSenders ==
  /\ handler = "spawn_traffic"
  /\ sender' = [sender EXCEPT ![started] = "tick"]
  /\ handler' = "idle"
  /\ UNCHANGED <<connVars, traffic, streams, limit, started, prober, reporter, late>>

StopServerTraffic ==
  /\ handler = "StopServerTraffic"
  /\ traffic' = FALSE
  /\ handler' = "idle"
  /\ UNCHANGED <<connVars, streams, limit, started, taskVars, late>>

\* The clock starts anew; there is a limit if the session has a magic key.
StartProbeStreams ==
  /\ handler = "StartProbeStreams"
  /\ streams' = TRUE
  /\ limit' \in {"none", "running"}
  /\ started' = started + 1
  /\ handler' = "spawn_streams"
  /\ UNCHANGED <<connVars, traffic, taskVars, late>>

\* The guard has been given up when the sender and the reporter are spawned.
SpawnStreams ==
  /\ handler = "spawn_streams"
  /\ prober' = [prober EXCEPT ![started] = "tick"]
  /\ reporter' = [reporter EXCEPT ![started] = "tick"]
  /\ handler' = "idle"
  /\ UNCHANGED <<connVars, traffic, streams, limit, started, sender, late>>

StopProbeStreams ==
  /\ handler = "StopProbeStreams"
  /\ streams' = FALSE
  /\ handler' = "idle"
  /\ UNCHANGED <<connVars, traffic, limit, started, taskVars, late>>

-----------------------------------------------------------------------------
(* start_probe_sender and start_bulk_sender *)

Sender(n, label) ==
  /\ sender' = [sender EXCEPT ![n] = label]
  /\ UNCHANGED <<connVars, traffic, streams, limit, handler, started, prober, reporter, late>>

SenderTick(n) == sender[n] = "tick" /\ Sender(n, IF traffic THEN "channel" ELSE "ended")

\* Without an open channel the sender waits for its next tick.
SenderChannel(n) ==
  sender[n] = "channel" /\ Sender(n, IF "probe" \in open THEN "send" ELSE "tick")

\* A send can fail once the channel or the connection is closed; it ends the
\* sender and leaves the flag as it is.
SendFails == "probe" \notin open \/ conn = "closed"

SenderSend(n) ==
  /\ sender[n] = "send"
  /\ Sender(n, "tick") \/ (SendFails /\ Sender(n, "ended"))

-----------------------------------------------------------------------------
(* start_measurement_probe_sender *)

\* The flag and the time limit, under one guard.
ProberTick(n) ==
  LET goes == streams /\ limit # "over" IN
  /\ prober[n] = "tick"
  /\ prober' = [prober EXCEPT ![n] = IF goes THEN "channel" ELSE "ended"]
  /\ streams' = goes
  /\ UNCHANGED <<connVars, traffic, limit, handler, started, sender, reporter, late>>

Prober(n, label) ==
  /\ prober' = [prober EXCEPT ![n] = label]
  /\ UNCHANGED <<connVars, traffic, streams, limit, handler, started, sender, reporter, late>>

ProberChannel(n) ==
  prober[n] = "channel" /\ Prober(n, IF "probe" \in open THEN "send" ELSE "tick")

ProberSend(n) ==
  /\ prober[n] = "send"
  /\ Prober(n, "tick") \/ (SendFails /\ Prober(n, "ended"))

-----------------------------------------------------------------------------
(* start_probe_stats_reporter *)

Reporter(n, label) ==
  /\ reporter' = [reporter EXCEPT ![n] = label]
  /\ UNCHANGED <<connVars, traffic, limit, handler, started, sender, prober, late>>

ReporterTick(n) ==
  /\ reporter[n] = "tick"
  /\ Reporter(n, IF streams THEN "channel" ELSE "ended")
  /\ UNCHANGED streams

ReporterChannelIgnored(n) ==  \* mutant: the control channel is not looked at
  reporter[n] = "channel" /\ Reporter(n, "time") /\ UNCHANGED streams

ReporterChannel(n) ==
  /\ reporter[n] = "channel"
  /\ Reporter(n, IF "control" \in open THEN "time" ELSE "clear")
  /\ UNCHANGED streams

ReporterTimeIgnored(n) ==  \* mutant: the limit is left to the sender
  reporter[n] = "time" /\ Reporter(n, "report") /\ UNCHANGED streams

\* The limit is read under one guard and acted on under another.
ReporterTime(n) ==
  /\ reporter[n] = "time"
  /\ Reporter(n, IF limit = "over" THEN "clear" ELSE "report")
  /\ UNCHANGED streams

ReporterClearForgets(n) ==  \* mutant: the reporter leaves the flag to others
  reporter[n] = "clear" /\ Reporter(n, "ended") /\ UNCHANGED streams

ReporterClear(n) ==
  /\ reporter[n] = "clear"
  /\ streams' = FALSE
  /\ Reporter(n, "ended")

\* The statistics are recorded and sent; errors are only logged.
ReporterReport(n) ==
  /\ reporter[n] = "report"
  /\ Reporter(n, "tick")
  /\ UNCHANGED streams

-----------------------------------------------------------------------------
(* The peer connection *)

\* Connectivity is lost or the connection closed; a callback will run.
ConnectionLost(to) ==
  /\ \/ conn = "up"
     \/ conn = "down" /\ to = "closed"
  /\ pending < MaxPending
  /\ conn' = to
  /\ pending' = pending + 1
  /\ UNCHANGED <<open, traffic, streams, limit, handler, started, taskVars, late>>

\* ICE recovers; nothing that was stopped is started again.
ConnectionRecovers ==
  /\ conn = "down"
  /\ conn' = "up"
  /\ UNCHANGED <<pending, open, traffic, streams, limit, handler, started, taskVars, late>>

StopActivitiesStreamsOnly ==  \* mutant: one of the flags is forgotten
  /\ pending > 0
  /\ pending' = pending - 1
  /\ streams' = FALSE
  /\ UNCHANGED <<conn, open, traffic, limit, handler, started, taskVars, late>>

\* The callback of a lost connection clears both flags.
StopActivities ==
  /\ pending > 0
  /\ pending' = pending - 1
  /\ traffic' = FALSE
  /\ streams' = FALSE
  /\ UNCHANGED <<conn, open, limit, handler, started, taskVars, late>>

\* A data channel is closed by the client, or with the connection.
ChannelCloses(ch) ==
  /\ ch \in open
  /\ open' = open \ {ch}
  /\ UNCHANGED <<conn, pending, traffic, streams, limit, handler, started, taskVars, late>>

\* The measuring time of the latest start is over.
Expire ==
  /\ limit = "running"
  /\ limit' = "over"
  /\ UNCHANGED <<connVars, traffic, streams, handler, started, taskVars, late>>

-----------------------------------------------------------------------------
HandlerRuns ==
  \/ StartServerTraffic \/ SpawnSenders \/ StopServerTraffic
  \/ StartProbeStreams \/ SpawnStreams \/ StopProbeStreams

SenderRuns(n) == SenderTick(n) \/ SenderChannel(n) \/ SenderSend(n)

ProberRuns(n) == ProberTick(n) \/ ProberChannel(n) \/ ProberSend(n)

ReporterRuns(n) ==
  \/ ReporterTick(n) \/ ReporterChannel(n) \/ ReporterTime(n)
  \/ ReporterClear(n) \/ ReporterReport(n)

Next ==
  \/ \E m \in Messages : Receive(m)
  \/ HandlerRuns
  \/ \E n \in Starts : SenderRuns(n) \/ ProberRuns(n) \/ ReporterRuns(n)
  \/ \E to \in {"down", "closed"} : ConnectionLost(to)
  \/ ConnectionRecovers
  \/ StopActivities
  \/ \E ch \in Channels : ChannelCloses(ch)
  \/ Expire

Spec == Init /\ [][Next]_vars

\* tokio runs every task that can run, timers fire and time passes; closing
\* the connection closes its channels.  The client owes nothing.
TaskFairness ==
  /\ WF_vars(HandlerRuns) /\ WF_vars(StopActivities) /\ WF_vars(Expire)
  /\ \A n \in Starts : /\ WF_vars(SenderRuns(n))
                        /\ WF_vars(ProberRuns(n))
                        /\ WF_vars(ReporterRuns(n))
  /\ WF_vars(conn = "closed" /\ \E ch \in Channels : ChannelCloses(ch))

-----------------------------------------------------------------------------
(* Properties *)

\* While probe_streams_active is set somebody watches over the streams: a
\* stats reporter is running, or the handler is about to spawn one.  Every way
\* out of the reporter's loop leaves the flag down, so the control channel and
\* the time limit never go unchecked, however starts and stops overlap.
StreamsSupervised ==
  streams => handler = "spawn_streams" \/ \E n \in Starts : Alive(reporter[n])

\* "The server should enforce the limit by auto-stopping probe streams when
\* the duration is exceeded", also when the sender, which checks it first, has
\* died of a failed send.
LimitEnforced == (streams /\ limit # "none") ~> (~streams \/ limit = "none")

\* Once the connection is closed its tasks end: the measurement probe senders
\* and the reporters also when a Start is still being handled after the
\* callback has run, because the reporter looks at the control channel; the
\* probe and bulk senders unless a StartServerTraffic was, because then nothing
\* is left that clears traffic_active.
TasksEnd ==
  conn = "closed" ~> \A n \in Starts : /\ ~Alive(prober[n]) /\ ~Alive(reporter[n])
                                       /\ late \/ ~Alive(sender[n])
=============================================================================
