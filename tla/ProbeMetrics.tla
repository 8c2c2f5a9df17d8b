---------------------------- MODULE ProbeMetrics ----------------------------
(***************************************************************************)
(* What the two ends of a connection make of the probes they receive: the  *)
(* windows of recent probes, the loss, reordering and delay figures taken  *)
(* from them, and the delay baseline.  Probes travel on an unordered       *)
(* channel without retransmissions: they overtake one another and get      *)
(* lost, but are not duplicated.  The clocks of the two ends are apart by  *)
(* an unknown offset.                                                      *)
(*                                                                         *)
(* Measurement probes go both ways once StartProbeStreams has been sent;   *)
(* traffic is a stream of the server's probes, which the client echoes,    *)
(* and one of a client's, which this repository's no longer sends but the  *)
(* server still handles.  Times are ticks, averages are kept as sum and    *)
(* count, and rates as the counts they are taken from.  Bulk data, which   *)
(* is only summed up, is left out.                                         *)
(***************************************************************************)
EXTENDS Integers, Sequences, FiniteSets, FiniteSetsExt, Functions

CONSTANTS Offsets,         \* what the client's clock may be ahead of the server's
          StatsWindow,     \* PROBE_STATS_WINDOW_MS
          FeedbackWindow,  \* PROBE_FEEDBACK_WINDOW_MS
          Spans,           \* the windows of calculate_metrics; the longest is what is kept
          MinSamples,      \* BASELINE_MIN_SAMPLES
          Multiplier,      \* BASELINE_OUTLIER_MULTIPLIER
          MinThreshold,    \* BASELINE_MIN_THRESHOLD_MS
          MaxNow,          \* bound: ticks
          MaxSends,        \* bound: probes sent
          NoReport

ASSUME MetricsAssumption ==
  /\ Offsets \subseteq Int
  /\ FeedbackWindow \in Nat /\ StatsWindow \in Nat
  /\ FeedbackWindow <= StatsWindow
  /\ Spans \subseteq Nat /\ Spans # {} /\ IsFiniteSet(Spans)
  /\ {MinSamples, Multiplier, MinThreshold, MaxNow, MaxSends} \subseteq Nat

Ends == {"client", "server"}
Other(e) == IF e = "client" THEN "server" ELSE "client"

\* The windows: received_measurement_probes of either end, received_probes of
\* the client ("received") and of the server ("plain"), and its echoed_probes.
Windows == Ends \cup {"received", "plain", "echoed"}

\* The lengths of time a report may be about.
Lengths == Spans \cup {FeedbackWindow}

VARIABLES now,         \* true time, which is the server's clock
          offset,
          flight,      \* probes on their way; one that is never received is lost
          active,      \* probe_streams_active of each end
          starting,    \* StartProbeStreams is on its way
          next_seq,    \* measurement_probe_seq of each end, and probe_seq of each
          sent_probes, \* sent_probes, and with it sent_probes_map
          window,
          baseline,    \* baseline_delay_sum and baseline_delay_count of each end
          feedback,    \* last_feedback of each end
          report,      \* the last figures calculated from each window, by length
          arrived,     \* history: the sequence numbers that arrived, by window, except
                       \* for echoes that took longer than the longest span
          overtaken,   \* history: windows one of whose probes arrived after a later one
          delays       \* history: true delays of the probes in the baseline's time

metricsVars == <<now, offset, flight, active, starting, next_seq, sent_probes, window,
                 baseline, feedback, report, arrived, overtaken, delays>>

Clock(e) == IF e = "client" THEN now + offset ELSE now

MetricsInit ==
  /\ now = 0 /\ offset \in Offsets
  /\ flight = {}
  /\ active = [e \in Ends |-> FALSE] /\ starting = FALSE
  /\ next_seq = [s \in Ends \cup {"traffic", "plain"} |-> 0]
  /\ sent_probes = <<>>
  /\ window = [w \in Windows |-> <<>>]
  /\ baseline = [e \in Ends |-> [sum |-> 0, count |-> 0]]
  /\ feedback = [e \in Ends |-> [highest |-> 0, count |-> 0, reorders |-> 0]]
  /\ report = [w \in Windows |-> [s \in Lengths |-> NoReport]]
  /\ arrived = [w \in Windows |-> {}]
  /\ overtaken = {}
  /\ delays = [e \in Ends |-> {}]

-----------------------------------------------------------------------------
(* Windows and figures *)

\* Old entries are popped from the front, up to the first that is not old.
Pruned(win, cutoff) ==
  LET kept == {i \in DOMAIN win : win[i].at >= cutoff} IN
  IF kept = {} THEN <<>> ELSE SubSeq(win, Min(kept), Len(win))

\* The entries that are recent enough, at the positions they have in the window.
Recent(win, cutoff) == RestrictValues(win, LAMBDA p : p.at >= cutoff)

Seqs(r) == {r[i].seq : i \in DOMAIN r}

ExpectedFromStart(r) == Max(Seqs(r)) + 1  \* mutant: min_seq is forgotten

Expected(r) == Max(Seqs(r)) - Min(Seqs(r)) + 1

Lost(r) == Max({0, Expected(r) - Cardinality(DOMAIN r)})

\* A probe is reordered if its number is below the highest before it ...
Reorders(r) == Cardinality({i \in DOMAIN r : \E j \in DOMAIN r : j < i /\ r[i].seq < r[j].seq})

\* A position and the next.
Consecutive(r) == {ij \in (DOMAIN r) \X (DOMAIN r) :
                     ij[1] < ij[2] /\ \A k \in DOMAIN r : k <= ij[1] \/ ij[2] <= k}

\* ... or, in the client's calculate_metrics, below the one just before it.
StepsBack(r) == Cardinality({ij \in Consecutive(r) : r[ij[2]].seq < r[ij[1]].seq})

Figures(r, reorders) ==
  [lost |-> Lost(r), reorders |-> reorders, lo |-> Min(Seqs(r)), hi |-> Max(Seqs(r))]

\* The server's calculate_metrics begins with nothing, the client's with what
\* it had; a single probe leaves the client's loss as it was.
ServerMetrics(wins) ==
  [w \in Windows |-> [s \in Lengths |->
    LET r == Recent(wins[w], now - s) IN
    IF w \notin {"plain", "echoed"} \/ s \notin Spans THEN report[w][s]
    ELSE IF r = <<>> THEN NoReport ELSE Figures(r, Reorders(r))]]

ClientMetrics(win, old) ==
  [s \in Lengths |->
    LET r == Recent(win, Clock("client") - s) IN
    IF s \notin Spans \/ r = <<>> THEN old[s]
    ELSE IF Cardinality(DOMAIN r) >= 2 \/ old[s] = NoReport THEN Figures(r, StepsBack(r))
    ELSE [old[s] EXCEPT !.reorders = StepsBack(r)]]

Delays(r) == [i \in DOMAIN r |-> r[i].at - r[i].sent]

\* The value at index k, from 0, once those of s are sorted: the least that more
\* than k of them do not exceed.
Sorted(s, k) == Min({v \in Range(s) : Cardinality({i \in DOMAIN s : s[i] <= v}) > k})

\* Median, 99th percentile, smallest and largest.
Percentiles(s) ==
  LET len == Cardinality(DOMAIN s) IN
  IF len = 0 THEN <<0, 0, 0, 0>>
  ELSE <<Sorted(s, len \div 2), Sorted(s, Min({(len * 99) \div 100, len - 1})),
         Sorted(s, 0), Sorted(s, len - 1)>>

\* delay_deviation_ms, times the baseline's count.
DelayDeviations(r, b) ==
  Percentiles([i \in DOMAIN r |-> Delays(r)[i] * b.count - b.sum])

Abs(x) == IF x < 0 THEN -x ELSE x

\* jitter_ms: between one probe and the next.
Jitter(r) ==
  Percentiles([ij \in Consecutive(r) |-> Abs(Delays(r)[ij[2]] - Delays(r)[ij[1]])])

CountsOutliers(b, delay) ==  \* mutant: the count takes in the outliers, the sum does not
  [sum   |-> IF b.count < MinSamples
                \/ Abs(delay * b.count - b.sum) < Max({Abs(b.sum) * Multiplier, MinThreshold * b.count})
             THEN b.sum + delay ELSE b.sum,
   count |-> b.count + 1]

\* The first samples count, later ones unless they are far off the average so
\* far (whose comparison is multiplied by the count).
WithDelay(b, delay) ==
  IF \/ b.count < MinSamples
     \/ Abs(delay * b.count - b.sum) < Max({Abs(b.sum) * Multiplier, MinThreshold * b.count})
  THEN [sum |-> b.sum + delay, count |-> b.count + 1]
  ELSE b

-----------------------------------------------------------------------------
(* Measurement probes *)

\* send_start_probe_streams: the client's side starts at once.
StartStreams ==
  /\ ~active["client"]
  /\ active' = [active EXCEPT !["client"] = TRUE]
  /\ starting' = TRUE
  /\ UNCHANGED <<now, offset, flight, next_seq, sent_probes, window, baseline, feedback,
                 report, arrived, overtaken, delays>>

\* The server's side starts when the message has come through.
StartReceived ==
  /\ starting
  /\ starting' = FALSE
  /\ active' = [active EXCEPT !["server"] = TRUE]
  /\ UNCHANGED <<now, offset, flight, next_seq, sent_probes, window, baseline, feedback,
                 report, arrived, overtaken, delays>>

\* The server's side stops: the time is up.
StopStreams ==
  /\ active["server"]
  /\ active' = [active EXCEPT !["server"] = FALSE]
  /\ UNCHANGED <<now, offset, flight, starting, next_seq, sent_probes, window, baseline,
                 feedback, report, arrived, overtaken, delays>>

MaySend == SumFunction(next_seq) < MaxSends

SendMeasurement(e) ==
  /\ active[e] /\ MaySend
  /\ flight' = flight \cup {[kind |-> "measurement", to |-> Other(e), seq |-> next_seq[e],
                             sent |-> Clock(e)]}
  /\ next_seq' = [next_seq EXCEPT ![e] = @ + 1]
  /\ UNCHANGED <<now, offset, active, starting, sent_probes, window, baseline, feedback,
                 report, arrived, overtaken, delays>>

Arrived(w, p) ==
  /\ arrived' = [arrived EXCEPT ![w] = @ \cup {p.seq}]
  /\ overtaken' = IF \E q \in arrived[w] : q > p.seq THEN overtaken \cup {w} ELSE overtaken

\* handle_measurement_probe_packet and the client's handler do the same; an
\* end whose streams are not active drops the probe.
MeasurementReceived(p) ==
  LET e   == p.to
      at  == Clock(e)
      win == Pruned(Append(window[e], [seq |-> p.seq, sent |-> p.sent, at |-> at]),
                    at - StatsWindow)
      fed == Recent(win, at - FeedbackWindow)
  IN
  /\ p \in flight /\ p.kind = "measurement"
  /\ flight' = flight \ {p}
  /\ Arrived(e, p)
  /\ IF active[e]
     THEN /\ window' = [window EXCEPT ![e] = win]
          /\ baseline' = [baseline EXCEPT ![e] = WithDelay(@, at - p.sent)]
          /\ feedback' = [feedback EXCEPT ![e] =
               [highest  |-> Max({@.highest, p.seq}),
                count    |-> Cardinality(DOMAIN fed),
                reorders |-> Reorders(fed)]]
          /\ delays' = [delays EXCEPT ![e] = @ \cup {(at - p.sent) - (Clock(e) - Clock(Other(e)))}]
     ELSE UNCHANGED <<window, baseline, feedback, delays>>
  /\ UNCHANGED <<now, offset, active, starting, next_seq, sent_probes, report>>

RecentMeasured(e) == Recent(window[e], Clock(e) - FeedbackWindow)

\* The once-a-second reports: calculate_probe_stream_stats on the server,
\* calculate_client_s2c_stats on the client.
ReportStats(e) ==
  LET r == RecentMeasured(e) IN
  /\ active[e]
  /\ report' = [report EXCEPT ![e][FeedbackWindow] =
       IF r = <<>> THEN NoReport ELSE Figures(r, Reorders(r))]
  /\ UNCHANGED <<now, offset, flight, active, starting, next_seq, sent_probes, window,
                 baseline, feedback, arrived, overtaken, delays>>

-----------------------------------------------------------------------------
(* Traffic: probes of start_probe_sender, their echoes, and probes of a client *)

SendProbe ==
  LET sent == [seq |-> next_seq["traffic"], at |-> now] IN
  /\ MaySend
  /\ sent_probes' = Pruned(Append(sent_probes, sent), now - Max(Spans))
  /\ flight' = flight \cup {[kind |-> "probe", to |-> "client", seq |-> sent.seq, sent |-> now]}
  /\ next_seq' = [next_seq EXCEPT !["traffic"] = @ + 1]
  /\ UNCHANGED <<now, offset, active, starting, window, baseline, feedback, report, arrived,
                 overtaken, delays>>

\* The client stores the probe and sends it back with the time it came; the
\* traceroute phase, in which it would not store it, is over by then.
ProbeReceived(p) ==
  LET at == Clock("client") IN
  /\ p \in flight /\ p.kind = "probe"
  /\ flight' = (flight \ {p}) \cup {[kind |-> "echo", to |-> "server", seq |-> p.seq, sent |-> at]}
  /\ window' = [window EXCEPT !["received"] =
       Pruned(Append(@, [seq |-> p.seq, sent |-> p.sent, at |-> at]), at - Max(Spans))]
  /\ Arrived("received", p)
  /\ UNCHANGED <<now, offset, active, starting, next_seq, sent_probes, baseline, feedback,
                 report, delays>>

\* The client's metrics, ten times a second.
CalculateMetrics ==
  /\ report' = [report EXCEPT !["received"] =
       ClientMetrics(window["received"], @)]
  /\ UNCHANGED <<now, offset, flight, active, starting, next_seq, sent_probes, window,
                 baseline, feedback, arrived, overtaken, delays>>

\* The server's metrics, whenever it has received a probe.
StoreAndRecalculate(w, win) ==
  /\ window' = [window EXCEPT ![w] = win]
  /\ report' = ServerMetrics(window')

\* handle_probe_packet, for an echo: it is dated by the client's clock, pruned
\* by the server's, and dropped if its probe is no longer remembered.
EchoReceived(p) ==
  LET known == {i \in DOMAIN sent_probes : sent_probes[i].seq = p.seq} IN
  /\ p \in flight /\ p.kind = "echo"
  /\ flight' = flight \ {p}
  /\ IF known = {}
     THEN /\ StoreAndRecalculate("echoed", window["echoed"])
          /\ UNCHANGED <<arrived, overtaken>>
     ELSE /\ StoreAndRecalculate("echoed",
               Pruned(Append(window["echoed"], [seq  |-> p.seq,
                                                sent |-> sent_probes[Max(known)].at,
                                                at   |-> p.sent]),
                      now - Max(Spans)))
          /\ Arrived("echoed", p)
  /\ UNCHANGED <<now, offset, active, starting, next_seq, sent_probes, baseline, feedback,
                 delays>>

SendPlain ==
  /\ MaySend
  /\ flight' = flight \cup {[kind |-> "plain", to |-> "server", seq |-> next_seq["plain"],
                             sent |-> Clock("client")]}
  /\ next_seq' = [next_seq EXCEPT !["plain"] = @ + 1]
  /\ UNCHANGED <<now, offset, active, starting, sent_probes, window, baseline, feedback,
                 report, arrived, overtaken, delays>>

\* handle_probe_packet, for a probe of the client's own.
PlainReceived(p) ==
  /\ p \in flight /\ p.kind = "plain"
  /\ flight' = flight \ {p}
  /\ StoreAndRecalculate("plain",
       Pruned(Append(window["plain"], [seq |-> p.seq, sent |-> p.sent, at |-> now]),
              now - Max(Spans)))
  /\ Arrived("plain", p)
  /\ UNCHANGED <<now, offset, active, starting, next_seq, sent_probes, baseline, feedback,
                 delays>>

-----------------------------------------------------------------------------
TimePasses ==
  /\ now < MaxNow
  /\ now' = now + 1
  /\ UNCHANGED <<offset, flight, active, starting, next_seq, sent_probes, window, baseline,
                 feedback, report, arrived, overtaken, delays>>

MeasurementNext ==
  \/ StartStreams \/ StartReceived \/ StopStreams
  \/ \E e \in Ends : SendMeasurement(e) \/ ReportStats(e)
  \/ \E p \in flight : MeasurementReceived(p)

TrafficNext ==
  \/ SendProbe \/ SendPlain \/ CalculateMetrics
  \/ \E p \in flight : ProbeReceived(p) \/ EchoReceived(p) \/ PlainReceived(p)

MetricsNext == MeasurementNext \/ TrafficNext \/ TimePasses

MetricsSpec == MetricsInit /\ [][MetricsNext]_metricsVars

-----------------------------------------------------------------------------
(* Properties *)

\* No probe was overtaken, on either way if it was echoed.
Orderly(w) == /\ w \notin overtaken
              /\ w = "echoed" => "received" \notin overtaken

\* A report never invents trouble: it shows reordering only if a probe arrived
\* after a later one, and as long as none has, its loss is the number of probes
\* between the first and the last of its window that did not arrive, whatever
\* the clocks, late starts, pruned windows and figures kept from an earlier
\* calculation (measurements.rs, calculate_metrics, calculate_probe_stream_stats).
ReportsTrue ==
  /\ \A w \in Windows : \A s \in Lengths :
       LET r == report[w][s] IN
       r # NoReport /\ Orderly(w) =>
         /\ r.reorders = 0
         /\ r.lost = Cardinality((r.lo .. r.hi) \ arrived[w])
  /\ \A e \in Ends : feedback[e].reorders > 0 => e \in overtaken

\* "The baseline calculation will capture the clock offset, and deviations
\* will be meaningful": whatever the offset and whichever samples the baseline
\* leaves out, no deviation and no jitter that a report would show exceeds the
\* spread of the true delays since the start (measurements.rs).
OffsetCancels ==
  \A e \in Ends :
    LET r      == RecentMeasured(e)
        spread == Max(delays[e]) - Min(delays[e])
    IN  r # <<>> =>
          /\ \A d \in Range(DelayDeviations(r, baseline[e])) :
               Abs(d) <= spread * baseline[e].count
          /\ \A j \in Range(Jitter(r)) : j <= spread
=============================================================================
