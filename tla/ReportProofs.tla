----------------------------- MODULE ReportProofs -----------------------------
(***************************************************************************)
(* The figures an end reports of a window in which no probe was overtaken  *)
(* are true, for any number of probes, however they are delayed or lost,   *)
(* for any lengths of the windows and any difference of the two clocks.    *)
(*                                                                         *)
(* Such a window is in order and holds all that arrived between its first  *)
(* and its last entry, which rests on no number being used twice and on    *)
(* every window being dated by one clock.                                  *)
(***************************************************************************)
EXTENDS MeasurementProofs

-----------------------------------------------------------------------------
(* The invariant *)

\* The counter that numbers the probes of a window.
Source(w) == IF w \in Ends THEN Other(w) ELSE IF w = "plain" THEN "plain" ELSE "traffic"

\* No number is used twice: a probe on its way has not arrived, no other one
\* has its number, and the counters are ahead of all of them.
FlightInv ==
  /\ \A p \in flight : p.seq \notin arrived[Target(p)] /\ p.seq < next_seq[Source(Target(p))]
  /\ \A p, q \in flight : Target(p) = Target(q) /\ p.seq = q.seq => p = q
  /\ \A w \in Windows : \A n \in arrived[w] : n < next_seq[Source(w)]
  /\ \A p \in flight : p.kind = "echo" => p.seq \in arrived["received"]
  /\ arrived["echoed"] \subseteq arrived["received"]

\* The streams of an end are active for one stretch of time, and its window is
\* empty before.
StartsInv ==
  /\ ~active["client"] => ~starting /\ ~active["server"] /\ window["client"] = <<>>
  /\ ~active["client"] \/ starting => window["server"] = <<>>
  /\ starting => ~active["server"]

\* The clock that dates the entries of a window.
ClockOf(w) == IF w \in {"client", "received", "echoed"} THEN Clock("client") ELSE Clock("server")

\* Entries and echoes are dated by a clock that has reached their date.
ClockInv ==
  /\ \A w \in Windows : \A i \in 1..Len(window[w]) : window[w][i].at <= ClockOf(w)
  /\ \A p \in flight : p.kind = "echo" => p.sent <= Clock("client")

\* The numbers of a window rise, and so do its dates.
Ordered(win) == \A i, j \in 1..Len(win) : i < j => win[i].seq < win[j].seq /\ win[i].at <= win[j].at

\* The numbers of a window arrived, and all that arrived in between are in it.
Complete(win, S) ==
  /\ \A i \in 1..Len(win) : win[i].seq \in S
  /\ \A n \in S : \A i, j \in 1..Len(win) :
       win[i].seq <= n /\ n <= win[j].seq => \E k \in 1..Len(win) : win[k].seq = n

\* The last entry of a window is the latest probe that arrived.
Latest(win, S) == win # <<>> => \A n \in S : n <= win[Len(win)].seq

\* A window in which no probe was overtaken is in order and without gaps, and
\* while probes are stored in it its last entry is the latest of them.
WindowInv ==
  \A w \in Windows : Orderly(w) =>
    /\ Ordered(window[w])
    /\ Complete(window[w], arrived[w])
    /\ w \notin Ends \/ active[w] => Latest(window[w], arrived[w])

\* Echoes are dated in the order of their numbers.
EchoInv ==
  "received" \notin overtaken =>
    \A p \in flight : p.kind = "echo" =>
      /\ \A q \in flight : q.kind = "echo" /\ p.seq < q.seq => p.sent <= q.sent
      /\ \A i \in 1..Len(window["echoed"]) :
           window["echoed"][i].seq < p.seq => window["echoed"][i].at <= p.sent

\* What ReportsTrue says of one report.
TrueReport(r, S) ==
  /\ r.hi \in S
  /\ r.reorders = 0
  /\ r.lost = Cardinality((r.lo .. r.hi) \ S)

\* The reports are true, and the counter of the measurement probes counts as
\* reordered only what was overtaken.
ReportInv ==
  /\ \A w \in Windows : \A s \in Lengths :
       report[w][s] # NoReport /\ Orderly(w) => TrueReport(report[w][s], arrived[w])
  /\ \A e \in Ends : feedback[e].reorders > 0 => e \in overtaken

\* The inductive invariant.
MetricsInv == MetricsType /\ FlightInv /\ StartsInv /\ ClockInv /\ WindowInv /\ EchoInv /\ ReportInv

-----------------------------------------------------------------------------
(* Probes on their way *)

\* A probe with the next number of its stream is a new one.
LEMMA FlightSend ==
  ASSUME MetricsType, FlightInv, NEW p \in Probes, NEW s \in Ends \cup {"traffic", "plain"},
         p.kind # "echo", p.seq = next_seq[s], Source(Target(p)) = s,
         flight' = flight \cup {p},
         next_seq' = [next_seq EXCEPT ![s] = @ + 1],
         arrived' = arrived
  PROVE  FlightInv'
<1>1. Target(p) \in Windows /\ \A q \in flight : Target(q) \in Windows /\ q.seq \in Nat
  <2>1. Target(p) \in Windows
    BY DEF Probes, Target, Windows
  <2>2. ASSUME NEW q \in flight PROVE Target(q) \in Windows /\ q.seq \in Nat
    BY ProbeFields
  <2> QED BY <2>1, <2>2
<1>2. \A w \in Windows : /\ Source(w) \in Ends \cup {"traffic", "plain"}
                         /\ next_seq[Source(w)] \in Nat
                         /\ next_seq'[Source(w)] \in Nat
                         /\ next_seq[Source(w)] <= next_seq'[Source(w)]
  <2>1. next_seq \in [Ends \cup {"traffic", "plain"} -> Nat]
    BY DEF MetricsType
  <2>2. \A w \in Windows : Source(w) \in Ends \cup {"traffic", "plain"}
    BY DEF Source, Other, Ends
  <2>3. \A x \in Ends \cup {"traffic", "plain"} :
          next_seq[x] \in Nat /\ next_seq'[x] \in Nat /\ next_seq[x] <= next_seq'[x]
    BY <2>1
  <2> QED BY <2>2, <2>3
<1>3. \A w \in Windows : \A n \in arrived[w] : n \in Nat /\ n < next_seq[Source(w)]
  BY DEF MetricsType, FlightInv
<1>4. p.seq \in Nat /\ next_seq'[s] = p.seq + 1
  BY DEF MetricsType
<1>5. \A q \in flight' : q.seq \notin arrived'[Target(q)] /\ q.seq < next_seq'[Source(Target(q))]
  <2>1. ASSUME NEW q \in flight
        PROVE  q.seq \notin arrived'[Target(q)] /\ q.seq < next_seq'[Source(Target(q))]
    <3>1. q.seq \notin arrived[Target(q)] /\ q.seq < next_seq[Source(Target(q))]
      BY DEF FlightInv
    <3> QED BY <1>1, <1>2, <3>1
  <2>2. p.seq \notin arrived'[Target(p)] /\ p.seq < next_seq'[Source(Target(p))]
    BY <1>1, <1>3, <1>4
  <2> QED BY <2>1, <2>2
<1>6. \A q \in flight : Target(q) = Target(p) => q.seq # p.seq
  <2>1. ASSUME NEW q \in flight, Target(q) = Target(p) PROVE q.seq < p.seq
    BY <2>1 DEF FlightInv
  <2> QED BY <1>1, <1>4, <2>1
<1>7. \A q, r \in flight' : Target(q) = Target(r) /\ q.seq = r.seq => q = r
  BY <1>6 DEF FlightInv
<1>8. \A w \in Windows : \A n \in arrived'[w] : n < next_seq'[Source(w)]
  BY <1>2, <1>3
<1>9. \A q \in flight' : q.kind = "echo" => q.seq \in arrived'["received"]
  BY DEF FlightInv
<1> QED BY <1>5, <1>7, <1>8, <1>9 DEF FlightInv

\* A probe that leaves the air does not come again.
LEMMA FlightLand ==
  ASSUME MetricsType, FlightInv, NEW p \in flight,
         flight' = flight \ {p},
         next_seq' = next_seq,
         arrived' = arrived \/ arrived' = [arrived EXCEPT ![Target(p)] = @ \cup {p.seq}]
  PROVE  FlightInv'
<1>1. Target(p) \in Windows /\ \A q \in flight : Target(q) \in Windows
  BY ProbeFields
<1>2. \A w \in Windows : /\ arrived[w] \subseteq arrived'[w]
                         /\ \A n \in arrived'[w] : n \in arrived[w] \/ (n = p.seq /\ w = Target(p))
  BY DEF MetricsType
<1>3. \A q \in flight' : q.seq \notin arrived'[Target(q)] /\ q.seq < next_seq'[Source(Target(q))]
  <2>1. ASSUME NEW q \in flight' PROVE q.seq \notin arrived'[Target(q)]
    <3>1. q \in flight /\ q # p /\ q.seq \notin arrived[Target(q)]
      BY DEF FlightInv
    <3> QED BY <1>1, <1>2, <3>1 DEF FlightInv
  <2> QED BY <2>1 DEF FlightInv
<1>4. \A q, r \in flight' : Target(q) = Target(r) /\ q.seq = r.seq => q = r
  BY DEF FlightInv
<1>5. \A w \in Windows : \A n \in arrived'[w] : n < next_seq'[Source(w)]
  BY <1>2 DEF FlightInv
<1>6. "received" \in Windows /\ "echoed" \in Windows
  BY DEF Windows
<1>7. \A q \in flight' : q.kind = "echo" => q.seq \in arrived'["received"]
  BY <1>2, <1>6 DEF FlightInv
<1>8. arrived'["echoed"] \subseteq arrived'["received"]
  <2>1. Target(p) = "echoed" => p.kind = "echo"
    BY ProbeFields DEF Target, Ends
  <2> QED BY <1>2, <1>6, <2>1 DEF FlightInv
<1> QED BY <1>3, <1>4, <1>5, <1>7, <1>8 DEF FlightInv

\* No step uses a number twice.
LEMMA FlightKept ==
  ASSUME MetricsType, FlightInv, MetricsNext
  PROVE  FlightInv'
<1>1. ASSUME UNCHANGED <<flight, next_seq, arrived>> PROVE FlightInv'
  BY <1>1 DEF FlightInv
<1>2. CASE StartStreams \/ StartReceived \/ StopStreams \/ TimePasses \/ CalculateMetrics
           \/ \E e \in Ends : ReportStats(e)
  BY <1>1, <1>2 DEF StartStreams, StartReceived, StopStreams, TimePasses, CalculateMetrics, ReportStats
<1>3. ASSUME NEW e \in Ends, SendMeasurement(e) PROVE FlightInv'
  <2> DEFINE p == [kind |-> "measurement", to |-> Other(e), seq |-> next_seq[e], sent |-> Clock(e)]
  <2>1. p \in Probes
    BY Clocks DEF MetricsType, Probes
  <2>2. /\ p.kind # "echo" /\ p.seq = next_seq[e] /\ Source(Target(p)) = e
    BY DEF Target, Source, Other, Ends
  <2>3. /\ flight' = flight \cup {p}
        /\ next_seq' = [next_seq EXCEPT ![e] = @ + 1]
        /\ arrived' = arrived
    BY <1>3 DEF SendMeasurement
  <2> HIDE DEF p
  <2> QED BY <2>1, <2>2, <2>3, FlightSend
<1>4. CASE SendPlain
  <2> DEFINE p == [kind |-> "plain", to |-> "server", seq |-> next_seq["plain"], sent |-> Clock("client")]
  <2>1. p \in Probes
    BY Clocks DEF MetricsType, Probes, Ends
  <2>2. /\ p.kind # "echo" /\ p.seq = next_seq["plain"] /\ Source(Target(p)) = "plain"
    BY DEF Target, Source, Ends
  <2>3. /\ flight' = flight \cup {p}
        /\ next_seq' = [next_seq EXCEPT !["plain"] = @ + 1]
        /\ arrived' = arrived
    BY <1>4 DEF SendPlain
  <2> HIDE DEF p
  <2> QED BY <2>1, <2>2, <2>3, FlightSend
<1>5. CASE SendProbe
  <2> DEFINE p == [kind |-> "probe", to |-> "client", seq |-> next_seq["traffic"], sent |-> now]
  <2>1. p \in Probes
    BY Clocks DEF MetricsType, Probes, Ends
  <2>2. /\ p.kind # "echo" /\ p.seq = next_seq["traffic"] /\ Source(Target(p)) = "traffic"
    BY DEF Target, Source, Ends
  <2>3. /\ flight' = flight \cup {p}
        /\ next_seq' = [next_seq EXCEPT !["traffic"] = @ + 1]
        /\ arrived' = arrived
    BY <1>5 DEF SendProbe
  <2> HIDE DEF p
  <2> QED BY <2>1, <2>2, <2>3, FlightSend
<1>6. ASSUME NEW p \in flight, MeasurementReceived(p) PROVE FlightInv'
  <2>1. Target(p) = p.to
    BY <1>6 DEF Target, MeasurementReceived
  <2> QED BY <1>6, <2>1, FlightLand DEF MeasurementReceived, Arrived
<1>7. ASSUME NEW p \in flight, EchoReceived(p) PROVE FlightInv'
  <2>1. Target(p) = "echoed"
    BY <1>7 DEF Target, EchoReceived
  <2>2. /\ flight' = flight \ {p}
        /\ next_seq' = next_seq
        /\ arrived' = arrived \/ Arrived("echoed", p)
    BY <1>7 DEF EchoReceived
  <2> QED BY <2>1, <2>2, FlightLand DEF Arrived
<1>8. ASSUME NEW p \in flight, PlainReceived(p) PROVE FlightInv'
  <2>1. Target(p) = "plain"
    BY <1>8 DEF Target, PlainReceived
  <2> QED BY <1>8, <2>1, FlightLand DEF PlainReceived, Arrived
<1>9. ASSUME NEW p \in flight, ProbeReceived(p) PROVE FlightInv'
  <2> DEFINE echo == [kind |-> "echo", to |-> "server", seq |-> p.seq, sent |-> Clock("client")]
  <2>1. /\ flight' = (flight \ {p}) \cup {echo}
        /\ next_seq' = next_seq
        /\ arrived' = [arrived EXCEPT !["received"] = @ \cup {p.seq}]
        /\ Target(p) = "received"
    BY <1>9 DEF ProbeReceived, Arrived, Target
  <2>2. /\ echo.kind = "echo" /\ echo.seq = p.seq /\ Target(echo) = "echoed"
        /\ Source("echoed") = "traffic" /\ Source("received") = "traffic"
    BY DEF Target, Source, Ends
  <2>3. "received" \in Windows /\ "echoed" \in Windows
    BY DEF Windows
  <2> HIDE DEF echo
  <2>4. /\ arrived'["echoed"] = arrived["echoed"]
        /\ arrived'["received"] = arrived["received"] \cup {p.seq}
        /\ \A w \in Windows : /\ arrived[w] \subseteq arrived'[w]
                              /\ \A n \in arrived'[w] : n \in arrived[w] \/ (n = p.seq /\ w = "received")
    BY <2>1, <2>3 DEF MetricsType
  <2>5. p.seq \notin arrived["received"] /\ p.seq < next_seq["traffic"]
    BY <2>1, <2>2 DEF FlightInv
  <2>6. \A q \in flight : Target(q) \in Windows /\ (Target(q) = "echoed" => q.kind = "echo")
    BY ProbeFields DEF Target, Ends
  <2>7. \A q \in flight' : q.seq \notin arrived'[Target(q)] /\ q.seq < next_seq'[Source(Target(q))]
    <3>1. ASSUME NEW q \in flight, q # p PROVE q.seq \notin arrived'[Target(q)]
      BY <2>1, <2>4, <2>6, <3>1 DEF FlightInv
    <3>2. \A q \in flight : q.seq < next_seq'[Source(Target(q))]
      BY <2>1 DEF FlightInv
    <3>3. echo.seq \notin arrived'[Target(echo)] /\ echo.seq < next_seq'[Source(Target(echo))]
      BY <2>1, <2>2, <2>4, <2>5 DEF FlightInv
    <3> QED BY <2>1, <3>1, <3>2, <3>3
  <2>8. \A q, r \in flight' : Target(q) = Target(r) /\ q.seq = r.seq => q = r
    <3>1. ASSUME NEW q \in flight, Target(q) = "echoed" PROVE q.seq # echo.seq
      BY <2>2, <2>5, <2>6, <3>1 DEF FlightInv
    <3> QED BY <2>1, <2>2, <3>1 DEF FlightInv
  <2>9. \A w \in Windows : \A n \in arrived'[w] : n < next_seq'[Source(w)]
    BY <2>1, <2>2, <2>4, <2>5 DEF FlightInv
  <2>10. \A q \in flight' : q.kind = "echo" => q.seq \in arrived'["received"]
    BY <2>1, <2>2, <2>4 DEF FlightInv
  <2>11. arrived'["echoed"] \subseteq arrived'["received"]
    BY <2>4 DEF FlightInv
  <2> QED BY <2>7, <2>8, <2>9, <2>10, <2>11 DEF FlightInv
<1> QED BY <1>2, <1>3, <1>4, <1>5, <1>6, <1>7, <1>8, <1>9
        DEF MetricsNext, MeasurementNext, TrafficNext

-----------------------------------------------------------------------------
(* Starts, clocks and the steps of a window *)

\* Before an end's streams start its window is empty.
LEMMA StartsKept ==
  ASSUME MetricsType, StartsInv, MetricsNext
  PROVE  StartsInv'
<1>1. ASSUME UNCHANGED <<active, starting>>,
             window'["client"] = window["client"], window'["server"] = window["server"]
      PROVE  StartsInv'
  BY <1>1 DEF StartsInv
<1>2. ASSUME UNCHANGED <<active, starting, window>> PROVE StartsInv'
  BY <1>2 DEF StartsInv
<1>3. CASE TimePasses \/ CalculateMetrics \/ SendProbe \/ SendPlain
           \/ \E e \in Ends : SendMeasurement(e) \/ ReportStats(e)
  BY <1>2, <1>3 DEF TimePasses, CalculateMetrics, SendProbe, SendPlain, SendMeasurement, ReportStats
<1>4. CASE StartStreams
  BY <1>4 DEF StartStreams, StartsInv, MetricsType, Ends
<1>5. CASE StartReceived
  BY <1>5 DEF StartReceived, StartsInv, MetricsType, Ends
<1>6. CASE StopStreams
  BY <1>6 DEF StopStreams, StartsInv, MetricsType, Ends
<1>7. ASSUME NEW p \in flight, MeasurementReceived(p) PROVE StartsInv'
  <2>1. p.to \in Ends /\ UNCHANGED <<active, starting>>
    BY <1>7, ProbeFields DEF MeasurementReceived
  <2>2. CASE ~active[p.to]
    BY <1>2, <1>7, <2>1, <2>2 DEF MeasurementReceived
  <2>3. CASE active[p.to]
    <3>1. PICK win : window' = [window EXCEPT ![p.to] = win]
      BY <1>7, <2>3 DEF MeasurementReceived
    <3> QED BY <2>1, <2>3, <3>1 DEF StartsInv, MetricsType, Ends, Windows
  <2> QED BY <2>2, <2>3
<1>8. ASSUME NEW p \in flight, ProbeReceived(p) \/ EchoReceived(p) \/ PlainReceived(p)
      PROVE  StartsInv'
  <2>1. PICK w \in {"received", "echoed", "plain"} : \E win : window' = [window EXCEPT ![w] = win]
    BY <1>8 DEF ProbeReceived, EchoReceived, PlainReceived, StoreAndRecalculate
  <2>2. UNCHANGED <<active, starting>>
    BY <1>8 DEF ProbeReceived, EchoReceived, PlainReceived
  <2> QED BY <1>1, <2>1, <2>2 DEF MetricsType, Ends, Windows
<1> QED BY <1>3, <1>4, <1>5, <1>6, <1>7, <1>8 DEF MetricsNext, MeasurementNext, TrafficNext

\* What a step may do to the windows: leave them alone, store the entry of a
\* probe that has come, or let one pass by an end whose streams are not active.
Quiet == UNCHANGED <<window, arrived, overtaken>>

Stores(p, e, c) ==
  /\ e.seq = p.seq
  /\ e.at = IF p.kind = "echo" THEN p.sent ELSE ClockOf(Target(p))
  /\ Target(p) \in Ends => active[Target(p)]
  /\ window' = [window EXCEPT ![Target(p)] = Pruned(Append(@, e), c)]
  /\ Arrived(Target(p), p)

Passes(p) ==
  /\ Target(p) \in Ends /\ ~active[Target(p)]
  /\ UNCHANGED window
  /\ Arrived(Target(p), p)

Receives ==
  /\ UNCHANGED <<now, offset, active>>
  /\ \E p \in flight : Passes(p) \/ \E e \in Entries, c \in Int : Stores(p, e, c)

\* A measurement probe is stored or passes by.
LEMMA MeasurementStep ==
  ASSUME MetricsType, NEW p \in flight, MeasurementReceived(p)
  PROVE  Receives
<1>1. /\ p.to \in Ends /\ p.seq \in Nat /\ p.sent \in Int
      /\ Target(p) = p.to
      /\ p.kind # "echo"
  BY ProbeFields DEF MeasurementReceived, Target
<1>2. UNCHANGED <<now, offset, active>> /\ Arrived(Target(p), p)
  BY <1>1 DEF MeasurementReceived
<1>3. CASE ~active[p.to]
  BY <1>1, <1>2, <1>3 DEF Receives, Passes, MeasurementReceived
<1>4. CASE active[p.to]
  <2> DEFINE e == [seq |-> p.seq, sent |-> p.sent, at |-> Clock(p.to)]
             c == Clock(p.to) - StatsWindow
  <2>1. Clock(p.to) \in Int /\ Clock(p.to) = ClockOf(Target(p))
    BY <1>1, Clocks DEF ClockOf, Clock, Ends
  <2>2. e \in Entries /\ c \in Int
    BY <1>1, <2>1, Constants DEF Entries
  <2>3. window' = [window EXCEPT ![Target(p)] = Pruned(Append(window[Target(p)], e), c)]
    BY <1>1, <1>4 DEF MeasurementReceived
  <2>4. e.seq = p.seq /\ e.at = ClockOf(Target(p))
    BY <2>1
  <2> HIDE DEF e, c
  <2>5. Stores(p, e, c)
    BY <1>1, <1>2, <1>4, <2>3, <2>4 DEF Stores
  <2> QED BY <1>2, <2>2, <2>5 DEF Receives
<1> QED BY <1>3, <1>4

\* A probe of the server traffic is stored.
LEMMA ProbeStep ==
  ASSUME MetricsType, NEW p \in flight, ProbeReceived(p)
  PROVE  Receives
<1> DEFINE e == [seq |-> p.seq, sent |-> p.sent, at |-> Clock("client")]
           c == Clock("client") - Max(Spans)
<1>1. /\ p.seq \in Nat /\ p.sent \in Int
      /\ Target(p) = "received"
      /\ p.kind # "echo"
  BY ProbeFields DEF ProbeReceived, Target
<1>2. UNCHANGED <<now, offset, active>> /\ Arrived(Target(p), p)
  BY <1>1 DEF ProbeReceived
<1>3. Clock("client") \in Int /\ ClockOf(Target(p)) = Clock("client")
  BY <1>1, Clocks DEF ClockOf, Ends
<1>4. e \in Entries /\ c \in Int
  BY <1>1, <1>3, Constants DEF Entries
<1>5. window' = [window EXCEPT ![Target(p)] = Pruned(Append(window[Target(p)], e), c)]
  BY <1>1 DEF ProbeReceived
<1>6. e.seq = p.seq /\ e.at = ClockOf(Target(p))
  BY <1>3
<1> HIDE DEF e, c
<1>7. Stores(p, e, c)
  BY <1>1, <1>2, <1>5, <1>6 DEF Stores, Ends
<1> QED BY <1>2, <1>4, <1>7 DEF Receives

\* A probe of the client's own is stored.
LEMMA PlainStep ==
  ASSUME MetricsType, NEW p \in flight, PlainReceived(p)
  PROVE  Receives
<1> DEFINE e == [seq |-> p.seq, sent |-> p.sent, at |-> now]
           c == now - Max(Spans)
<1>1. /\ p.seq \in Nat /\ p.sent \in Int
      /\ Target(p) = "plain"
      /\ p.kind # "echo"
  BY ProbeFields DEF PlainReceived, Target
<1>2. UNCHANGED <<now, offset, active>> /\ Arrived(Target(p), p)
  BY <1>1 DEF PlainReceived
<1>3. now \in Int /\ ClockOf(Target(p)) = now
  BY <1>1 DEF ClockOf, Clock, MetricsType
<1>4. e \in Entries /\ c \in Int
  BY <1>1, <1>3, Constants DEF Entries
<1>5. window' = [window EXCEPT ![Target(p)] = Pruned(Append(window[Target(p)], e), c)]
  BY <1>1 DEF PlainReceived, StoreAndRecalculate
<1>6. e.seq = p.seq /\ e.at = ClockOf(Target(p))
  BY <1>3
<1> HIDE DEF e, c
<1>7. Stores(p, e, c)
  BY <1>1, <1>2, <1>5, <1>6 DEF Stores, Ends
<1> QED BY <1>2, <1>4, <1>7 DEF Receives

\* An echo whose probe is still remembered is stored, with a time at which it
\* was sent.
LEMMA EchoStep ==
  ASSUME MetricsType, NEW p \in flight, EchoReceived(p)
  PROVE  /\ UNCHANGED <<now, offset, active>>
         /\ Quiet \/ \E e \in Entries, c \in Int : Stores(p, e, c)
<1> DEFINE known == {i \in DOMAIN sent_probes : sent_probes[i].seq = p.seq}
           e     == [seq |-> p.seq, sent |-> sent_probes[Max(known)].at, at |-> p.sent]
           c     == now - Max(Spans)
<1>1. /\ p.seq \in Nat /\ p.sent \in Int
      /\ Target(p) = "echoed"
      /\ p.kind = "echo"
  BY ProbeFields DEF EchoReceived, Target
<1>2. UNCHANGED <<now, offset, active>>
  BY DEF EchoReceived
<1>3. CASE known = {}
  <2>1. UNCHANGED <<arrived, overtaken>> /\ window' = [window EXCEPT !["echoed"] = window["echoed"]]
    BY <1>3 DEF EchoReceived, StoreAndRecalculate
  <2> QED BY <1>2, <2>1 DEF Quiet, MetricsType
<1>4. CASE known # {}
  <2>1. Arrived(Target(p), p)
    BY <1>1, <1>4 DEF EchoReceived
  <2>2. window' = [window EXCEPT ![Target(p)] = Pruned(Append(window[Target(p)], e), c)]
    BY <1>1, <1>4 DEF EchoReceived, StoreAndRecalculate
  <2>3. sent_probes[Max(known)].at \in Int
    BY <1>4, KnownIsSent
  <2>4. e \in Entries /\ c \in Int
    BY <1>1, <2>3, Constants DEF Entries, MetricsType
  <2>5. e.seq = p.seq /\ e.at = p.sent
    OBVIOUS
  <2> HIDE DEF e, c
  <2>6. Stores(p, e, c)
    BY <1>1, <2>1, <2>2, <2>5 DEF Stores, Ends
  <2> QED BY <1>2, <2>4, <2>6
<1> QED BY <1>3, <1>4

\* The steps of the windows are these, and the starts and stops.
LEMMA WindowSteps ==
  ASSUME MetricsType, MetricsNext
  PROVE  \/ StartStreams \/ StartReceived \/ StopStreams
         \/ Quiet /\ UNCHANGED active
         \/ Receives
<1>1. ASSUME NEW p \in flight, EchoReceived(p)
      PROVE  (Quiet /\ UNCHANGED active) \/ Receives
  BY <1>1, EchoStep DEF Receives
<1>2. CASE TimePasses \/ CalculateMetrics \/ SendProbe \/ SendPlain
           \/ \E e \in Ends : SendMeasurement(e) \/ ReportStats(e)
  BY <1>2 DEF TimePasses, CalculateMetrics, SendProbe, SendPlain, SendMeasurement, ReportStats, Quiet
<1> QED BY <1>1, <1>2, MeasurementStep, ProbeStep, PlainStep
        DEF MetricsNext, MeasurementNext, TrafficNext

\* No entry of a window is dated later than the clock that dated it reads.
LEMMA ClockKept ==
  ASSUME MetricsType, ClockInv, MetricsNext
  PROVE  ClockInv'
<1>1. \A w \in Windows : ClockOf(w) \in Int
  BY Clocks DEF ClockOf, Ends
<1>2. /\ now' = now \/ now' = now + 1
      /\ UNCHANGED offset
  BY DEF MetricsNext, MeasurementNext, TrafficNext, StartStreams, StartReceived, StopStreams,
         SendMeasurement, ReportStats, MeasurementReceived, SendProbe, SendPlain,
         CalculateMetrics, ProbeReceived, EchoReceived, PlainReceived, TimePasses
<1>3. \A w \in Windows : ClockOf(w)' \in Int /\ ClockOf(w) <= ClockOf(w)'
  BY <1>2 DEF ClockOf, Clock, MetricsType
<1>4. /\ Clock("client") \in Int /\ Clock("client")' \in Int
      /\ Clock("client") <= Clock("client")'
  BY <1>2 DEF Clock, MetricsType
<1>5. \A p \in flight' : p.kind = "echo" => p.sent <= Clock("client")'
  <2>1. \A p \in flight' : p.kind = "echo" => p \in flight \/ p.sent = Clock("client")
    <3> DEFINE Dated == \A p \in flight' : p.kind = "echo" => p \in flight \/ p.sent = Clock("client")
    <3> SUFFICES Dated
      OBVIOUS
    <3>1. ASSUME NEW q, flight' = flight \cup {q}, q.kind # "echo" PROVE Dated
      BY <3>1
    <3>2. CASE UNCHANGED flight
      BY <3>2
    <3>3. ASSUME NEW e \in Ends, SendMeasurement(e) PROVE Dated
      BY <3>1, <3>3 DEF SendMeasurement
    <3>4. CASE SendProbe
      BY <3>1, <3>4 DEF SendProbe
    <3>5. CASE SendPlain
      BY <3>1, <3>5 DEF SendPlain
    <3>6. ASSUME NEW p \in flight, flight' = flight \ {p} PROVE Dated
      BY <3>6
    <3>7. ASSUME NEW p \in flight, ProbeReceived(p) PROVE Dated
      BY <3>7 DEF ProbeReceived
    <3> HIDE DEF Dated
    <3>8. CASE StartStreams \/ StartReceived \/ StopStreams \/ TimePasses \/ CalculateMetrics
               \/ \E e \in Ends : ReportStats(e)
      BY <3>2, <3>8 DEF StartStreams, StartReceived, StopStreams, TimePasses, CalculateMetrics,
                       ReportStats
    <3>9. ASSUME NEW p \in flight, MeasurementReceived(p) \/ EchoReceived(p) \/ PlainReceived(p)
          PROVE  Dated
      BY <3>6, <3>9 DEF MeasurementReceived, EchoReceived, PlainReceived
    <3> QED BY <3>3, <3>4, <3>5, <3>7, <3>8, <3>9 DEF MetricsNext, MeasurementNext, TrafficNext
  <2>2. ASSUME NEW p \in flight, p.kind = "echo" PROVE p.sent <= Clock("client")'
    <3>1. p.sent \in Int /\ p.sent <= Clock("client")
      BY <2>2, ProbeFields DEF ClockInv
    <3> QED BY <1>4, <3>1
  <2> QED BY <1>4, <2>1, <2>2
<1>6. ASSUME NEW w \in Windows, NEW i \in 1..Len(window'[w])
      PROVE  window'[w][i].at <= ClockOf(w)'
  <2>1. window[w] \in Seq(Entries)
    BY DEF MetricsType
  <2>2. ASSUME NEW j \in 1..Len(window[w]) PROVE window[w][j].at <= ClockOf(w)'
    <3>1. window[w][j].at \in Int
      BY <2>1, EntryFields
    <3>2. window[w][j].at <= ClockOf(w)
      BY DEF ClockInv
    <3> QED BY <1>1, <1>3, <3>1, <3>2
  <2>3. CASE UNCHANGED window
    BY <2>2, <2>3
  <2>4. CASE Receives
    <3>1. PICK p \in flight : Passes(p) \/ \E e \in Entries, c \in Int : Stores(p, e, c)
      BY <2>4 DEF Receives
    <3>2. CASE Passes(p)
      BY <2>3, <3>2 DEF Passes
    <3>3. ASSUME NEW e \in Entries, NEW c \in Int, Stores(p, e, c)
          PROVE  window'[w][i].at <= ClockOf(w)'
      <4>1. CASE w # Target(p)
        <5>1. window'[w] = window[w]
          BY <3>3, <4>1 DEF Stores, MetricsType
        <5> QED BY <2>2, <5>1
      <4>2. CASE w = Target(p)
        <5>1. window'[w] = Pruned(Append(window[w], e), c)
          BY <3>3, <4>2 DEF Stores, MetricsType
        <5>2. window'[w][i] = e \/ \E j \in 1..Len(window[w]) : window'[w][i] = window[w][j]
          <6> DEFINE old == window[w]
                     new == Pruned(Append(old, e), c)
          <6>1. old \in Seq(Entries) /\ i \in 1..Len(new) /\ window'[w] = new
            BY <2>1, <5>1
          <6> HIDE DEF old
          <6>2. new[i] = e \/ \E j \in 1..Len(old) : new[i] = old[j]
            BY <6>1, StoredFrom
          <6> HIDE DEF new
          <6> QED BY <6>1, <6>2 DEF old
        <5>3. e.at <= ClockOf(w)'
          <6>1. CASE p.kind = "echo"
            <7>1. e.at = p.sent /\ p.sent \in Int /\ p.sent <= Clock("client")
              BY <3>3, <6>1, ProbeFields DEF Stores, ClockInv
            <7>2. ClockOf(w)' = Clock("client")'
              BY <4>2, <6>1 DEF ClockOf, Target
            <7> QED BY <1>4, <7>1, <7>2
          <6>2. CASE p.kind # "echo"
            BY <1>1, <1>3, <3>3, <4>2, <6>2 DEF Stores
          <6> QED BY <6>1, <6>2
        <5> QED BY <2>2, <5>2, <5>3
      <4> QED BY <4>1, <4>2
    <3> QED BY <3>1, <3>2, <3>3
  <2> QED BY <2>3, <2>4, WindowSteps DEF StartStreams, StartReceived, StopStreams, Quiet
<1> QED BY <1>5, <1>6 DEF ClockInv

-----------------------------------------------------------------------------
(* Windows in order *)

\* A probe that no earlier one has overtaken keeps a window in order.
LEMMA StoredInOrder ==
  ASSUME NEW win \in Seq(Entries), NEW e \in Entries, NEW c \in Int, NEW S \in SUBSET Nat,
         Ordered(win), Complete(win, S), Latest(win, S),
         \A n \in S : n < e.seq,
         \A i \in 1..Len(win) : win[i].at <= e.at
  PROVE  LET new == Pruned(Append(win, e), c) IN
         /\ Ordered(new)
         /\ Complete(new, S \cup {e.seq})
         /\ Latest(new, S \cup {e.seq})
<1> DEFINE new == Pruned(Append(win, e), c)
           N == Len(win)
<1>1. PICK k \in 0..(N + 1) :
        /\ new \in Seq(Entries)
        /\ Len(new) = N + 1 - k
        /\ \A i \in 1..(N + 1 - k) : new[i] = IF k + i = N + 1 THEN e ELSE win[k + i]
  BY StoredEntries
<1>2. N \in Nat /\ e.seq \in Nat /\ e.at \in Int
  BY DEF Entries
<1>3. \A i \in 1..N : win[i].seq \in Nat /\ win[i].at \in Int /\ win[i].seq \in S
  BY EntryFields DEF Complete
<1> HIDE DEF new
<1>4. \A i \in 1..Len(new) : \/ k + i = N + 1 /\ i = Len(new) /\ new[i] = e
                             \/ k + i \in 1..N /\ i < Len(new) /\ new[i] = win[k + i]
  BY <1>1, <1>2
<1> HIDE DEF N
<1>5. Ordered(new)
  <2>1. ASSUME NEW i \in 1..Len(new), NEW j \in 1..Len(new), i < j
        PROVE  new[i].seq < new[j].seq /\ new[i].at <= new[j].at
    <3>1. k + i \in 1..N /\ new[i] = win[k + i]
      BY <1>1, <1>4, <2>1
    <3>2. CASE new[j] = e
      BY <1>3, <3>1, <3>2 DEF N
    <3>3. CASE k + j \in 1..N /\ new[j] = win[k + j]
      <4>1. k + i < k + j
        BY <1>1, <2>1
      <4> QED BY <3>1, <3>3, <4>1 DEF Ordered, N
    <3> QED BY <1>4, <3>2, <3>3
  <2> QED BY <2>1 DEF Ordered
<1>6. \A i \in 1..Len(new) : new[i].seq \in S \cup {e.seq}
  BY <1>3, <1>4
<1>7. ASSUME new # <<>>
      PROVE  new[Len(new)] = e /\ Len(new) \in 1..Len(new)
  <2>1. Len(new) \in Nat \ {0}
    BY <1>1, <1>7
  <2> QED BY <1>4, <2>1
<1>8. Latest(new, S \cup {e.seq})
  BY <1>2, <1>7 DEF Latest
<1>9. ASSUME NEW n \in S \cup {e.seq}, NEW i \in 1..Len(new), NEW j \in 1..Len(new),
             new[i].seq <= n, n <= new[j].seq
      PROVE  \E m \in 1..Len(new) : new[m].seq = n
  <2>1. CASE n = e.seq
    <3>1. new # <<>>
      BY <1>1
    <3> QED BY <1>7, <2>1, <3>1
  <2>2. CASE n \in S
    <3>1. k + i \in 1..N /\ new[i] = win[k + i]
      <4>1. CASE new[i] = e
        BY <1>2, <1>9, <2>2, <4>1
      <4> QED BY <1>4, <4>1
    <3>2. n <= win[N].seq /\ N \in 1..N
      <4>1. win # <<>> /\ N \in 1..N
        BY <1>2, <3>1 DEF N
      <4> QED BY <2>2, <4>1 DEF Latest, N
    <3>3. PICK m \in 1..N : win[m].seq = n
      BY <1>9, <2>2, <3>1, <3>2 DEF Complete, N
    <3>4. m >= k + i
      <4>1. ASSUME m < k + i PROVE FALSE
        <5>1. win[m].seq < win[k + i].seq
          BY <3>1, <3>3, <4>1 DEF Ordered, N
        <5> QED BY <1>3, <1>9, <3>1, <3>3, <5>1
      <4> QED BY <1>1, <3>1, <4>1
    <3>5. m - k \in 1..Len(new) /\ k + (m - k) = m /\ m # N + 1
      BY <1>1, <1>2, <3>1, <3>4
    <3>6. new[m - k] = win[m]
      BY <1>4, <3>5
    <3> QED BY <3>3, <3>5, <3>6
  <2> QED BY <2>1, <2>2
<1>10. Complete(new, S \cup {e.seq})
  BY <1>6, <1>9 DEF Complete
<1> QED BY <1>5, <1>8, <1>10 DEF new

\* What an arrival in order says: everything that arrived before is earlier.
LEMMA InOrder ==
  ASSUME MetricsType, FlightInv, NEW p \in flight, Arrived(Target(p), p)
  PROVE  /\ \A w \in Windows : Orderly(w)' => Orderly(w)
         /\ \A w \in Windows : w # Target(p) => arrived'[w] = arrived[w]
         /\ arrived'[Target(p)] = arrived[Target(p)] \cup {p.seq}
         /\ Target(p) \notin overtaken' => \A n \in arrived[Target(p)] : n < p.seq
<1>1. Target(p) \in Windows /\ p.seq \in Nat
  BY ProbeFields
<1>2. overtaken \subseteq overtaken'
  BY DEF Arrived
<1>3. \A w \in Windows : Orderly(w)' => Orderly(w)
  BY <1>2 DEF Orderly
<1>4. /\ \A w \in Windows : w # Target(p) => arrived'[w] = arrived[w]
      /\ arrived'[Target(p)] = arrived[Target(p)] \cup {p.seq}
  BY <1>1 DEF Arrived, MetricsType
<1>5. ASSUME Target(p) \notin overtaken', NEW n \in arrived[Target(p)] PROVE n < p.seq
  <2>1. n \in Nat /\ n # p.seq
    BY <1>1 DEF MetricsType, FlightInv
  <2>2. ~ (n > p.seq)
    BY <1>5 DEF Arrived
  <2> QED BY <1>1, <2>1, <2>2
<1> QED BY <1>3, <1>4, <1>5

\* A probe that no window stores, or that comes in order, keeps the windows in
\* order and without gaps.
LEMMA WindowReceives ==
  ASSUME MetricsType, FlightInv, ClockInv, WindowInv, EchoInv, Receives
  PROVE  WindowInv'
<1>1. PICK p \in flight : Passes(p) \/ \E e \in Entries, c \in Int : Stores(p, e, c)
  BY DEF Receives
<1>2. UNCHANGED active
  BY DEF Receives
<1>3. Arrived(Target(p), p) /\ Target(p) \in Windows /\ p.seq \in Nat
  BY <1>1, ProbeFields DEF Passes, Stores
<1> DEFINE Good(w) == /\ Ordered(window'[w])
                      /\ Complete(window'[w], arrived'[w])
                      /\ w \notin Ends \/ active'[w] => Latest(window'[w], arrived'[w])
<1>4. ASSUME NEW w \in Windows, Orderly(w)', w # Target(p) PROVE Good(w)
  <2>1. window'[w] = window[w]
    BY <1>1, <1>4 DEF Passes, Stores, MetricsType
  <2>2. arrived'[w] = arrived[w] /\ Orderly(w)
    BY <1>3, <1>4, InOrder
  <2> QED BY <1>2, <2>1, <2>2 DEF WindowInv
<1>5. ASSUME NEW w \in Windows, Orderly(w)', w = Target(p) PROVE Good(w)
  <2> DEFINE win == window[w]
             S   == arrived[w]
  <2>1. /\ win \in Seq(Entries) /\ S \in SUBSET Nat
    BY DEF MetricsType
  <2>2. Orderly(w) /\ w \notin overtaken'
    BY <1>3, <1>5, InOrder DEF Orderly
  <2>3. Ordered(win) /\ Complete(win, S) /\ (w \notin Ends \/ active[w] => Latest(win, S))
    BY <2>2 DEF WindowInv
  <2>4. (\A n \in S : n < p.seq) /\ arrived'[w] = S \cup {p.seq}
    BY <1>3, <1>5, <2>2, InOrder
  <2>5. \A i \in 1..Len(win) : win[i].seq < p.seq /\ win[i].seq \in Nat
    BY <2>3, <2>4, <2>1, EntryFields DEF Complete
  <2>6. CASE Passes(p)
    <3>1. window'[w] = win /\ w \in Ends /\ ~active'[w]
      BY <1>2, <1>5, <2>6 DEF Passes
    <3> HIDE DEF win, S
    <3>2. Complete(win, S \cup {p.seq})
      <4>1. \A i \in 1..Len(win) : win[i].seq \in S \cup {p.seq}
        BY <2>3 DEF Complete
      <4>2. ASSUME NEW n \in S \cup {p.seq}, NEW i \in 1..Len(win), NEW j \in 1..Len(win),
                   win[i].seq <= n, n <= win[j].seq
            PROVE  \E k \in 1..Len(win) : win[k].seq = n
        <5>1. n # p.seq
          BY <1>3, <2>5, <4>2
        <5> QED BY <2>3, <4>2, <5>1 DEF Complete
      <4> QED BY <4>1, <4>2 DEF Complete
    <3> QED BY <2>3, <2>4, <3>1, <3>2
  <2>7. ASSUME NEW e \in Entries, NEW c \in Int, Stores(p, e, c) PROVE Good(w)
    <3> DEFINE new == Pruned(Append(win, e), c)
    <3>1. /\ window'[w] = new
          /\ e.seq = p.seq
          /\ w \notin Ends \/ active[w]
      BY <1>5, <2>7 DEF Stores, MetricsType
    <3>2. ASSUME NEW i \in 1..Len(win) PROVE win[i].at <= e.at
      <4>1. CASE p.kind = "echo"
        <5>1. w = "echoed" /\ e.at = p.sent
          BY <1>5, <2>7, <4>1 DEF Target, Stores
        <5>2. "received" \notin overtaken
          BY <2>2, <5>1 DEF Orderly
        <5> QED BY <2>5, <4>1, <5>1, <5>2 DEF EchoInv
      <4>2. CASE p.kind # "echo"
        BY <1>5, <2>7, <4>2 DEF ClockInv, Stores
      <4> QED BY <4>1, <4>2
    <3> HIDE DEF win, S
    <3>3. /\ Ordered(new)
          /\ Complete(new, S \cup {e.seq})
          /\ Latest(new, S \cup {e.seq})
      BY <2>1, <2>3, <2>4, <3>1, <3>2, StoredInOrder
    <3> HIDE DEF new
    <3> QED BY <2>4, <3>1, <3>3
  <2> QED BY <1>1, <2>6, <2>7
<1> QED BY <1>4, <1>5 DEF WindowInv

\* No step disturbs a window in which no probe was overtaken.
LEMMA WindowKept ==
  ASSUME MetricsType, FlightInv, StartsInv, ClockInv, WindowInv, EchoInv, MetricsNext
  PROVE  WindowInv'
<1>1. CASE Quiet /\ UNCHANGED active
  BY <1>1 DEF Quiet, WindowInv, Orderly
<1>2. ASSUME NEW e \in Ends, window[e] = <<>>, Quiet, active' = [active EXCEPT ![e] = TRUE]
      PROVE  WindowInv'
  <2> SUFFICES ASSUME NEW w \in Windows, Orderly(w)'
               PROVE  /\ Ordered(window'[w])
                      /\ Complete(window'[w], arrived'[w])
                      /\ w \notin Ends \/ active'[w] => Latest(window'[w], arrived'[w])
    BY DEF WindowInv
  <2>1. Orderly(w) /\ window' = window /\ arrived' = arrived
    BY <1>2 DEF Quiet, Orderly
  <2>2. CASE w = e
    BY <1>2, <2>1, <2>2 DEF WindowInv, Latest
  <2>3. CASE w # e
    <3>1. w \in Ends => active'[w] = active[w]
      BY <1>2, <2>3 DEF MetricsType
    <3> QED BY <2>1, <3>1 DEF WindowInv
  <2> QED BY <2>2, <2>3
<1>3. CASE StartStreams
  <2>1. window["client"] = <<>> /\ "client" \in Ends
    BY <1>3 DEF StartStreams, StartsInv, Ends
  <2> QED BY <1>2, <1>3, <2>1 DEF StartStreams, Quiet
<1>4. CASE StartReceived
  <2>1. window["server"] = <<>> /\ "server" \in Ends
    BY <1>4 DEF StartReceived, StartsInv, Ends
  <2> QED BY <1>2, <1>4, <2>1 DEF StartReceived, Quiet
<1>5. CASE StopStreams
  <2>1. /\ UNCHANGED <<window, arrived, overtaken>>
        /\ \A w \in Ends : active'[w] => active[w]
    BY <1>5 DEF StopStreams, MetricsType
  <2> QED BY <2>1 DEF WindowInv, Orderly
<1> QED BY <1>1, <1>3, <1>4, <1>5, WindowSteps, WindowReceives

\* No step disturbs the order of the echoes.
LEMMA EchoKept ==
  ASSUME MetricsType, FlightInv, ClockInv, EchoInv, MetricsNext
  PROVE  EchoInv'
<1> SUFFICES ASSUME "received" \notin overtaken',
                    NEW p \in flight', p.kind = "echo"
             PROVE  /\ \A q \in flight' : q.kind = "echo" /\ p.seq < q.seq => p.sent <= q.sent
                    /\ \A i \in 1..Len(window'["echoed"]) :
                         window'["echoed"][i].seq < p.seq => window'["echoed"][i].at <= p.sent
  BY DEF EchoInv
<1> DEFINE win == window["echoed"]
           Dated(q) == \A i \in 1..Len(win) : win[i].seq < q.seq => win[i].at <= q.sent
<1>1. "echoed" \in Windows /\ "received" \in Windows /\ win \in Seq(Entries)
  BY DEF MetricsType, Windows
<1>2. ASSUME NEW q \in flight, q.kind = "echo", "received" \notin overtaken
      PROVE  /\ \A r \in flight : r.kind = "echo" /\ q.seq < r.seq => q.sent <= r.sent
             /\ Dated(q)
  BY <1>2 DEF EchoInv
<1>3. ASSUME \A q \in flight' : q.kind = "echo" => q \in flight,
             overtaken \subseteq overtaken',
             window'["echoed"] = window["echoed"]
      PROVE  /\ \A q \in flight' : q.kind = "echo" /\ p.seq < q.seq => p.sent <= q.sent
             /\ \A i \in 1..Len(window'["echoed"]) :
                  window'["echoed"][i].seq < p.seq => window'["echoed"][i].at <= p.sent
  BY <1>2, <1>3
<1>4. CASE StartStreams \/ StartReceived \/ StopStreams \/ TimePasses \/ CalculateMetrics
           \/ \E e \in Ends : ReportStats(e)
  <2>1. UNCHANGED <<window, overtaken, flight>>
    BY <1>4 DEF StartStreams, StartReceived, StopStreams, TimePasses, CalculateMetrics, ReportStats
  <2> QED BY <1>3, <2>1
<1>5. CASE SendProbe \/ SendPlain \/ \E e \in Ends : SendMeasurement(e)
  <2>1. UNCHANGED <<window, overtaken>>
    BY <1>5 DEF SendProbe, SendPlain, SendMeasurement
  <2>2. \A q \in flight' : q.kind = "echo" => q \in flight
    <3>1. CASE SendProbe
      BY <3>1 DEF SendProbe
    <3>2. CASE SendPlain
      BY <3>2 DEF SendPlain
    <3>3. ASSUME NEW e \in Ends, SendMeasurement(e)
          PROVE  \A q \in flight' : q.kind = "echo" => q \in flight
      BY <3>3 DEF SendMeasurement
    <3> QED BY <1>5, <3>1, <3>2, <3>3
  <2> QED BY <1>3, <2>1, <2>2
<1>6. ASSUME NEW m \in flight, MeasurementReceived(m) \/ PlainReceived(m)
      PROVE  /\ \A q \in flight' : q.kind = "echo" /\ p.seq < q.seq => p.sent <= q.sent
             /\ \A i \in 1..Len(window'["echoed"]) :
                  window'["echoed"][i].seq < p.seq => window'["echoed"][i].at <= p.sent
  <2>1. flight' = flight \ {m} /\ overtaken \subseteq overtaken'
    BY <1>6 DEF MeasurementReceived, PlainReceived, Arrived
  <2>2. m.to # "echoed" /\ (window' = window \/ \E w, v : w # "echoed" /\ window' = [window EXCEPT ![w] = v])
    <3>1. m.to \in Ends
      BY ProbeFields
    <3> QED BY <1>6, <3>1 DEF MeasurementReceived, PlainReceived, StoreAndRecalculate, Ends
  <2>3. window'["echoed"] = window["echoed"]
    BY <1>1, <2>2 DEF MetricsType
  <2> QED BY <1>3, <2>1, <2>3
<1>7. ASSUME NEW m \in flight, ProbeReceived(m)
      PROVE  /\ \A q \in flight' : q.kind = "echo" /\ p.seq < q.seq => p.sent <= q.sent
             /\ \A i \in 1..Len(window'["echoed"]) :
                  window'["echoed"][i].seq < p.seq => window'["echoed"][i].at <= p.sent
  <2> DEFINE echo == [kind |-> "echo", to |-> "server", seq |-> m.seq, sent |-> Clock("client")]
  <2>1. /\ flight' = (flight \ {m}) \cup {echo}
        /\ window'["echoed"] = win
        /\ Arrived(Target(m), m) /\ Target(m) = "received"
    BY <1>7, <1>1 DEF ProbeReceived, Target, MetricsType
  <2>2. echo.seq = m.seq /\ echo.sent = Clock("client")
    OBVIOUS
  <2> HIDE DEF echo
  <2>3. overtaken \subseteq overtaken' /\ \A n \in arrived["received"] : n < m.seq
    BY <2>1, InOrder DEF Arrived
  <2>4. \A q \in flight : q.kind = "echo" =>
          q.seq < m.seq /\ q.sent <= Clock("client") /\ q.seq \in Nat /\ m.seq \in Nat
    BY <2>3, ProbeFields DEF FlightInv, ClockInv
  <2>5. \A i \in 1..Len(win) : win[i].at <= Clock("client")
    BY <1>1 DEF ClockInv, ClockOf
  <2>6. CASE p = echo
    <3>1. \A q \in flight' : q.kind = "echo" => ~ (p.seq < q.seq)
      <4>1. m.seq \in Nat
        BY ProbeFields
      <4> QED BY <2>1, <2>2, <2>4, <2>6, <4>1
    <3> QED BY <2>1, <2>2, <2>5, <2>6, <3>1
  <2>7. CASE p # echo
    <3>1. p \in flight
      BY <2>1, <2>7
    <3>2. Dated(p) /\ \A q \in flight : q.kind = "echo" /\ p.seq < q.seq => p.sent <= q.sent
      BY <1>2, <2>3, <3>1
    <3>3. p.sent <= echo.sent
      BY <2>2, <2>4, <3>1
    <3> QED BY <2>1, <3>2, <3>3
  <2> QED BY <2>6, <2>7
<1>8. ASSUME NEW m \in flight, EchoReceived(m)
      PROVE  /\ \A q \in flight' : q.kind = "echo" /\ p.seq < q.seq => p.sent <= q.sent
             /\ \A i \in 1..Len(window'["echoed"]) :
                  window'["echoed"][i].seq < p.seq => window'["echoed"][i].at <= p.sent
  <2>1. flight' = flight \ {m} /\ m.kind = "echo" /\ Target(m) = "echoed"
    BY <1>8 DEF EchoReceived, Target
  <2>2. CASE Quiet
    BY <1>3, <2>1, <2>2 DEF Quiet
  <2>3. ASSUME NEW e \in Entries, NEW c \in Int, Stores(m, e, c)
        PROVE  /\ \A q \in flight' : q.kind = "echo" /\ p.seq < q.seq => p.sent <= q.sent
               /\ \A i \in 1..Len(window'["echoed"]) :
                    window'["echoed"][i].seq < p.seq => window'["echoed"][i].at <= p.sent
    <3>1. overtaken \subseteq overtaken'
      BY <2>3 DEF Stores, Arrived
    <3>2. /\ p \in flight /\ Dated(p)
          /\ \A q \in flight : q.kind = "echo" /\ p.seq < q.seq => p.sent <= q.sent
      BY <1>2, <2>1, <3>1
    <3>3. m.seq < p.seq => m.sent <= p.sent
      BY <1>2, <2>1, <3>1, <3>2
    <3>4. /\ window'["echoed"] = Pruned(Append(win, e), c)
          /\ e.seq = m.seq /\ e.at = m.sent
      BY <1>1, <2>1, <2>3 DEF Stores, MetricsType
    <3>5. ASSUME NEW i \in 1..Len(window'["echoed"]), window'["echoed"][i].seq < p.seq
          PROVE  window'["echoed"][i].at <= p.sent
      <4> HIDE DEF win
      <4> DEFINE new == Pruned(Append(win, e), c)
      <4>1. i \in 1..Len(new)
        BY <3>4
      <4>2. new[i] = e \/ \E j \in 1..Len(win) : new[i] = win[j]
        BY <1>1, <4>1, StoredFrom
      <4>3. new = window'["echoed"]
        BY <3>4
      <4> HIDE DEF new
      <4> QED BY <3>2, <3>3, <3>4, <3>5, <4>2, <4>3
    <3> QED BY <2>1, <3>2, <3>5
  <2> QED BY <1>8, <2>2, <2>3, EchoStep
<1> QED BY <1>4, <1>5, <1>6, <1>7, <1>8 DEF MetricsNext, MeasurementNext, TrafficNext

-----------------------------------------------------------------------------
(* Reports *)

\* In a window whose numbers rise no probe counts as reordered.
LEMMA OrderedNoReorders ==
  ASSUME NEW win \in Seq(Entries), NEW c \in Int, Ordered(win)
  PROVE  Reorders(Recent(win, c)) = 0 /\ StepsBack(Recent(win, c)) = 0
<1> DEFINE r == Recent(win, c)
           D == DOMAIN r
<1>1. D \subseteq 1..Len(win) /\ \A i \in D : r[i] = win[i]
  BY RecentFacts
<1>2. \A i \in 1..Len(win) : win[i].seq \in Nat
  BY EntryFields
<1> HIDE DEF r
<1>3. ASSUME NEW i \in D, NEW j \in D, j < i, r[i].seq < r[j].seq PROVE FALSE
  <2>1. win[j].seq < win[i].seq
    BY <1>1, <1>3 DEF Ordered
  <2>2. win[i].seq < win[j].seq
    BY <1>1, <1>3
  <2> QED BY <1>1, <1>2, <2>1, <2>2
<1>4. {i \in D : \E j \in D : j < i /\ r[i].seq < r[j].seq} = {}
  BY <1>3
<1>5. {ij \in Consecutive(r) : r[ij[2]].seq < r[ij[1]].seq} = {}
  <2>1. ASSUME NEW ij \in Consecutive(r), r[ij[2]].seq < r[ij[1]].seq PROVE FALSE
    <3>1. ij \in D \X D
      BY DEF Consecutive
    <3>2. ij[1] \in D /\ ij[2] \in D
      BY <3>1
    <3>3. ij[1] < ij[2]
      BY DEF Consecutive
    <3> QED BY <1>3, <2>1, <3>2, <3>3
  <2> QED BY <2>1
<1> QED BY <1>4, <1>5, FS_EmptySet DEF Reorders, StepsBack, r

\* In such a window the entries a report is about are those from some position
\* on, so that its loss is what did not arrive between the first and the last.
LEMMA OrderedLoss ==
  ASSUME NEW win \in Seq(Entries), NEW c \in Int, NEW S \in SUBSET Nat, NEW n \in Nat,
         Ordered(win), Complete(win, S), Recent(win, c) # <<>>
  PROVE  LET r == Figures(Recent(win, c), n) IN
         r.hi \in S /\ r.lost = Cardinality((r.lo .. r.hi) \ S)
<1> DEFINE r  == Recent(win, c)
           D  == DOMAIN r
           lo == Min(Seqs(r))
           hi == Max(Seqs(r))
           f  == [i \in D |-> r[i].seq]
<1>1. /\ D = {i \in 1..Len(win) : win[i].at >= c}
      /\ \A i \in D : r[i] = win[i]
      /\ IsFiniteSet(D)
  BY RecentFacts
<1>2. /\ Seqs(r) \in SUBSET Nat
      /\ IsFiniteSet(Seqs(r))
      /\ lo \in Seqs(r) /\ hi \in Seqs(r)
      /\ \A m \in Seqs(r) : lo <= m /\ m <= hi
  BY SeqsFacts
<1>3. \A i \in 1..Len(win) : win[i].seq \in Nat /\ win[i].at \in Int
  BY EntryFields
<1> HIDE DEF r, lo, hi
<1>4. PICK a \in D : win[a].seq = lo
  BY <1>1, <1>2 DEF Seqs
<1>5. PICK b \in D : win[b].seq = hi
  BY <1>1, <1>2 DEF Seqs
<1>6. \A m \in Seqs(r) : m \in S /\ m \in lo..hi
  <2> SUFFICES ASSUME NEW m \in Seqs(r) PROVE m \in S /\ m \in lo..hi
    OBVIOUS
  <2>1. PICK i \in D : r[i].seq = m
    BY DEF Seqs
  <2>2. i \in 1..Len(win) /\ win[i].seq = m
    BY <1>1, <2>1
  <2>3. m \in S
    BY <2>2 DEF Complete
  <2>4. lo \in Nat /\ hi \in Nat /\ m \in Nat /\ lo <= m /\ m <= hi
    BY <1>2
  <2> QED BY <2>3, <2>4
<1>7. ASSUME NEW m \in S, m \in lo..hi
      PROVE  m \in Seqs(r)
  <2>1. a \in 1..Len(win) /\ b \in 1..Len(win) /\ win[a].at >= c
    BY <1>1
  <2>2. win[a].seq <= m /\ m <= win[b].seq
    BY <1>2, <1>4, <1>5, <1>7
  <2>3. PICK k \in 1..Len(win) : win[k].seq = m
    BY <2>1, <2>2 DEF Complete
  <2>4. k >= a
    BY <1>3, <2>1, <2>2, <2>3 DEF Ordered
  <2>5. win[k].at >= c
    BY <1>3, <2>1, <2>4 DEF Ordered
  <2>6. k \in D
    BY <1>1, <2>5
  <2> QED BY <1>1, <2>3, <2>6 DEF Seqs
<1>8. Cardinality(Seqs(r)) = Cardinality(D)
  <2>1. f \in [D -> Seqs(r)]
    BY DEF Seqs
  <2>2. \A m \in Seqs(r) : \E i \in D : f[i] = m
    BY DEF Seqs
  <2>3. ASSUME NEW i \in D, NEW j \in D, f[i] = f[j] PROVE i = j
    <3>1. i \in 1..Len(win) /\ j \in 1..Len(win) /\ win[i].seq = win[j].seq
      BY <1>1, <2>3
    <3>2. win[i].seq \in Nat /\ ~(win[i].seq < win[j].seq) /\ ~(win[j].seq < win[i].seq)
      BY <1>3, <3>1
    <3>3. ~(i < j) /\ ~(j < i)
      BY <3>1, <3>2, Zenon DEF Ordered
    <3> QED BY <3>1, <3>3
  <2>4. f \in Bijection(D, Seqs(r))
    BY <2>1, <2>2, <2>3 DEF Bijection, Injection, Surjection, IsInjective
  <2>5. ExistsBijection(D, Seqs(r))
    BY <2>4 DEF ExistsBijection
  <2> QED BY <1>1, <2>5, FS_Bijection
<1>9. (lo..hi) \ S = (lo..hi) \ Seqs(r)
  BY <1>6, <1>7
<1>10. /\ Cardinality((lo..hi) \ Seqs(r)) = Expected(r) - Cardinality(D)
       /\ Cardinality((lo..hi) \ Seqs(r)) \in Nat
  <2>1. lo \in Nat /\ hi \in Nat /\ lo <= hi
    BY <1>2
  <2>2. IsFiniteSet(lo..hi) /\ Cardinality(lo..hi) = hi - lo + 1
    BY <2>1, FS_Interval
  <2>3. (lo..hi) \cap Seqs(r) = Seqs(r)
    BY <1>6
  <2>4. /\ IsFiniteSet((lo..hi) \ Seqs(r))
        /\ Cardinality((lo..hi) \ Seqs(r)) = Cardinality(lo..hi) - Cardinality((lo..hi) \cap Seqs(r))
    BY <2>2, FS_Difference
  <2>5. Cardinality((lo..hi) \ Seqs(r)) \in Nat
    BY <2>4, FS_CardinalityType
  <2>6. Expected(r) = hi - lo + 1
    BY DEF Expected, lo, hi
  <2> QED BY <1>8, <2>2, <2>3, <2>4, <2>5, <2>6
<1>11. Lost(r) = Cardinality((lo..hi) \ S)
  <2>1. PICK x \in Nat : x = Expected(r) - Cardinality(D)
    BY <1>10
  <2>2. Lost(r) = Max({0, x})
    BY <2>1 DEF Lost
  <2>3. Max({0, x}) = x
    BY <2>1, MaxOfTwo
  <2> QED BY <1>9, <1>10, <2>1, <2>2, <2>3
<1>12. Figures(r, n) = [lost |-> Lost(r), reorders |-> n, lo |-> lo, hi |-> hi]
  BY DEF Figures, lo, hi
<1> QED BY <1>2, <1>6, <1>11, <1>12 DEF r

\* The figures taken from a window in order are true.
LEMMA FiguresTrue ==
  ASSUME NEW win \in Seq(Entries), NEW c \in Int, NEW S \in SUBSET Nat,
         Ordered(win), Complete(win, S), Recent(win, c) # <<>>
  PROVE  LET r == Recent(win, c) IN
         /\ TrueReport(Figures(r, Reorders(r)), S)
         /\ TrueReport(Figures(r, StepsBack(r)), S)
<1> DEFINE r == Recent(win, c)
<1>1. Reorders(r) = 0 /\ StepsBack(r) = 0
  BY OrderedNoReorders
<1>2. /\ Figures(r, 0).hi \in S
      /\ Figures(r, 0).lost = Cardinality((Figures(r, 0).lo .. Figures(r, 0).hi) \ S)
  BY OrderedLoss
<1> HIDE DEF r
<1>3. Figures(r, 0).reorders = 0
  BY DEF Figures
<1>4. TrueReport(Figures(r, 0), S)
  BY <1>2, <1>3 DEF TrueReport
<1> QED BY <1>1, <1>4 DEF r

\* A report stays true when a later probe comes.
LEMMA TrueStays ==
  ASSUME NEW r \in Reports, NEW S \in SUBSET Nat, NEW n \in Nat, TrueReport(r, S),
         \A m \in S : m < n
  PROVE  TrueReport(r, S \cup {n})
<1>1. r.hi \in S /\ r.hi \in Nat /\ r.lo \in Nat
  BY DEF TrueReport, Reports
<1>2. (r.lo .. r.hi) \ S = (r.lo .. r.hi) \ (S \cup {n})
  BY <1>1
<1> QED BY <1>1, <1>2 DEF TrueReport

\* What a report said of the probes that had arrived, it says of those that
\* have arrived after a step in order.
LEMMA OldReportsTrue ==
  ASSUME MetricsType, FlightInv, ReportInv, MetricsNext,
         NEW w \in Windows, NEW s \in Lengths, report[w][s] # NoReport, Orderly(w)'
  PROVE  TrueReport(report[w][s], arrived'[w])
<1>1. report[w][s] \in Reports /\ arrived[w] \in SUBSET Nat
  BY DEF MetricsType
<1>2. CASE UNCHANGED <<arrived, overtaken>>
  BY <1>2 DEF ReportInv, Orderly
<1>3. CASE Receives
  <2>1. PICK p \in flight : Arrived(Target(p), p)
    BY <1>3 DEF Receives, Passes, Stores
  <2>2. Orderly(w)
    BY <2>1, InOrder
  <2>3. TrueReport(report[w][s], arrived[w])
    BY <2>2 DEF ReportInv
  <2>4. CASE w # Target(p)
    BY <2>1, <2>3, <2>4, InOrder
  <2>5. CASE w = Target(p)
    <3>1. /\ p.seq \in Nat /\ arrived'[w] = arrived[w] \cup {p.seq}
          /\ \A n \in arrived[w] : n < p.seq
      BY <2>1, <2>5, InOrder, ProbeFields DEF Orderly
    <3> QED BY <1>1, <2>3, <3>1, TrueStays
  <2> QED BY <2>4, <2>5
<1> QED BY <1>2, <1>3, WindowSteps DEF StartStreams, StartReceived, StopStreams, Quiet

\* No step makes a report wrong: neither the one that calculates it, nor the
\* arrival of a probe that it counts as lost, which would be overtaken.
LEMMA ReportKept ==
  ASSUME MetricsType, FlightInv, WindowInv, ReportInv, MetricsNext, MetricsType', WindowInv'
  PROVE  ReportInv'
<1> DEFINE AllTrue == \A w \in Windows : \A s \in Lengths :
             report'[w][s] # NoReport /\ Orderly(w)' => TrueReport(report'[w][s], arrived'[w])
           Fed == \A e \in Ends : feedback'[e].reorders > 0 => e \in overtaken'
<1> SUFFICES AllTrue /\ Fed
  BY DEF ReportInv
<1>1. overtaken \subseteq overtaken'
  <2>1. Receives => overtaken \subseteq overtaken'
    BY DEF Receives, Passes, Stores, Arrived
  <2> QED BY <2>1, WindowSteps DEF StartStreams, StartReceived, StopStreams, Quiet
<1>2. UNCHANGED report => AllTrue
  BY OldReportsTrue
<1>3. UNCHANGED feedback => Fed
  BY <1>1 DEF ReportInv
<1>4. ASSUME NEW w \in Windows, NEW c \in Int, Orderly(w)', Recent(window'[w], c) # <<>>
      PROVE  LET r == Recent(window'[w], c) IN
             /\ TrueReport(Figures(r, Reorders(r)), arrived'[w])
             /\ TrueReport(Figures(r, StepsBack(r)), arrived'[w])
             /\ StepsBack(r) = 0
  <2> DEFINE win == window'[w]
             S == arrived'[w]
  <2>1. win \in Seq(Entries) /\ S \in SUBSET Nat
    BY DEF MetricsType
  <2>2. Ordered(win) /\ Complete(win, S)
    BY <1>4 DEF WindowInv
  <2>3. Recent(win, c) # <<>>
    BY <1>4
  <2> HIDE DEF win, S
  <2>4. LET r == Recent(win, c) IN
        /\ TrueReport(Figures(r, Reorders(r)), S)
        /\ TrueReport(Figures(r, StepsBack(r)), S)
        /\ StepsBack(r) = 0
    BY <2>1, <2>2, <2>3, FiguresTrue, OrderedNoReorders
  <2> QED BY <2>4 DEF win, S
<1>5. ASSUME NEW e \in Ends, ReportStats(e) PROVE AllTrue /\ Fed
  <2> DEFINE r == Recent(window'[e], Clock(e) - FeedbackWindow)
             new == IF r = <<>> THEN NoReport ELSE Figures(r, Reorders(r))
  <2>1. /\ e \in Windows /\ Clock(e) - FeedbackWindow \in Int
        /\ report' = [report EXCEPT ![e][FeedbackWindow] = new]
        /\ UNCHANGED feedback
    BY <1>5, Clocks, Constants DEF ReportStats, RecentMeasured, Windows
  <2>2. Orderly(e)' /\ new # NoReport => TrueReport(new, arrived'[e])
    BY <1>4, <2>1
  <2> HIDE DEF new
  <2>3. ASSUME NEW w \in Windows, NEW s \in Lengths
        PROVE  report'[w][s] = report[w][s] \/ (w = e /\ report'[w][s] = new)
    BY <2>1 DEF MetricsType
  <2> QED BY <1>3, <2>1, <2>2, <2>3, OldReportsTrue
<1>6. CASE CalculateMetrics
  <2> DEFINE old == report["received"]
             new == ClientMetrics(window'["received"], old)
  <2>1. /\ "received" \in Windows
        /\ report' = [report EXCEPT !["received"] = new]
        /\ UNCHANGED feedback
    BY <1>6 DEF CalculateMetrics, Windows
  <2>2. ASSUME NEW s \in Lengths, Orderly("received")', new[s] # NoReport
        PROVE  TrueReport(new[s], arrived'["received"])
    <3> DEFINE r == Recent(window'["received"], Clock("client") - s)
    <3>1. Clock("client") - s \in Int
      BY Clocks, Constants DEF Ends
    <3>2. r # <<>> => /\ TrueReport(Figures(r, StepsBack(r)), arrived'["received"])
                      /\ StepsBack(r) = 0
      BY <1>4, <2>1, <2>2, <3>1
    <3>3. old[s] # NoReport => TrueReport(old[s], arrived'["received"]) /\ old[s] \in Reports
      <4>1. old[s] \in Reports \cup {NoReport}
        BY <2>1 DEF MetricsType
      <4>2. old[s] # NoReport => TrueReport(old[s], arrived'["received"])
        BY <2>1, <2>2, OldReportsTrue
      <4> QED BY <4>1, <4>2
    <3>4. old[s] # NoReport /\ r # <<>> =>
            TrueReport([old[s] EXCEPT !.reorders = StepsBack(r)], arrived'["received"])
      BY <3>2, <3>3 DEF TrueReport, Reports
    <3>5. \/ new[s] = old[s]
          \/ r # <<>> /\ new[s] = Figures(r, StepsBack(r))
          \/ r # <<>> /\ old[s] # NoReport /\ new[s] = [old[s] EXCEPT !.reorders = StepsBack(r)]
      BY DEF ClientMetrics
    <3> QED BY <2>2, <3>2, <3>3, <3>4, <3>5
  <2> HIDE DEF new
  <2>3. ASSUME NEW w \in Windows, NEW s \in Lengths
        PROVE  report'[w][s] = IF w = "received" THEN new[s] ELSE report[w][s]
    <3>1. report'[w] = IF w = "received" THEN new ELSE report[w]
      BY <2>1 DEF MetricsType
    <3> QED BY <3>1
  <2>4. AllTrue
    <3> SUFFICES ASSUME NEW w \in Windows, NEW s \in Lengths, report'[w][s] # NoReport, Orderly(w)'
                 PROVE  TrueReport(report'[w][s], arrived'[w])
      OBVIOUS
    <3>1. CASE w = "received"
      BY <2>2, <2>3, <3>1
    <3>2. CASE w # "received"
      BY <2>3, <3>2, OldReportsTrue
    <3> QED BY <3>1, <3>2
  <2> QED BY <1>3, <2>1, <2>4
<1>7. ASSUME report' = ServerMetrics(window'), UNCHANGED now PROVE AllTrue
  <2> SUFFICES ASSUME NEW w \in Windows, NEW s \in Lengths, report'[w][s] # NoReport, Orderly(w)'
               PROVE  TrueReport(report'[w][s], arrived'[w])
    OBVIOUS
  <2> DEFINE r == Recent(window'[w], now - s)
  <2>1. now - s \in Int
    BY Clocks, Constants
  <2>2. r # <<>> => TrueReport(Figures(r, Reorders(r)), arrived'[w])
    BY <1>4, <2>1
  <2>3. ServerMetrics(window')[w][s] = report[w][s]
        \/ ServerMetrics(window')[w][s] = IF r = <<>> THEN NoReport ELSE Figures(r, Reorders(r))
    BY DEF ServerMetrics
  <2> HIDE DEF r
  <2> QED BY <1>7, <2>2, <2>3, OldReportsTrue
<1>8. ASSUME NEW p \in flight, EchoReceived(p) \/ PlainReceived(p) PROVE AllTrue /\ Fed
  <2>1. report' = ServerMetrics(window') /\ UNCHANGED <<now, feedback>>
    BY <1>8 DEF EchoReceived, PlainReceived, StoreAndRecalculate
  <2> QED BY <1>3, <1>7, <2>1
<1>9. ASSUME NEW p \in flight, MeasurementReceived(p) PROVE AllTrue /\ Fed
  <2>1. UNCHANGED report
    BY <1>9 DEF MeasurementReceived
  <2>2. CASE ~active[p.to]
    BY <1>2, <1>3, <1>9, <2>1, <2>2 DEF MeasurementReceived
  <2>3. CASE active[p.to]
    <3> DEFINE win == window'[p.to]
               fed == Recent(win, Clock(p.to) - FeedbackWindow)
    <3>1. p.to \in Ends /\ p.to \in Windows /\ Clock(p.to) - FeedbackWindow \in Int
      BY ProbeFields, Clocks, Constants DEF Windows
    <3>2. \A e \in Ends : feedback'[e].reorders = IF e = p.to THEN Reorders(fed)
                                                  ELSE feedback[e].reorders
      <4> DEFINE W == Pruned(Append(window[p.to], [seq |-> p.seq, sent |-> p.sent, at |-> Clock(p.to)]),
                             Clock(p.to) - StatsWindow)
                 R == Recent(W, Clock(p.to) - FeedbackWindow)
      <4>1. /\ window' = [window EXCEPT ![p.to] = W]
            /\ feedback' = [feedback EXCEPT ![p.to] =
                             [highest  |-> Max({@.highest, p.seq}),
                              count    |-> Cardinality(DOMAIN R),
                              reorders |-> Reorders(R)]]
        BY <1>9, <2>3 DEF MeasurementReceived
      <4> HIDE DEF W
      <4>2. win = W
        BY <3>1, <4>1 DEF MetricsType
      <4>3. fed = R
        BY <4>2
      <4> HIDE DEF win, fed, R
      <4>4. feedback \in [Ends -> [highest : Nat, count : Nat, reorders : Nat]]
        BY DEF MetricsType
      <4> QED BY <3>1, <4>1, <4>3, <4>4
    <3>3. p.to \notin overtaken' => Reorders(fed) = 0
      <4>1. Orderly(p.to)' <=> p.to \notin overtaken'
        BY <3>1 DEF Orderly, Ends
      <4>2. win \in Seq(Entries)
        BY <3>1 DEF MetricsType
      <4>3. Orderly(p.to)' => Ordered(win)
        BY <3>1 DEF WindowInv
      <4> HIDE DEF win
      <4> QED BY <3>1, <4>1, <4>2, <4>3, OrderedNoReorders
    <3>4. Fed
      BY <1>1, <3>2, <3>3 DEF ReportInv
    <3> QED BY <1>2, <2>1, <3>4
  <2> QED BY <2>2, <2>3
<1>10. ASSUME UNCHANGED <<report, feedback>> PROVE AllTrue /\ Fed
  BY <1>2, <1>3, <1>10
<1>11. CASE StartStreams \/ StartReceived \/ StopStreams \/ TimePasses \/ SendProbe \/ SendPlain
            \/ (\E e \in Ends : SendMeasurement(e)) \/ (\E p \in flight : ProbeReceived(p))
  <2>1. UNCHANGED <<report, feedback>>
    BY <1>11 DEF StartStreams, StartReceived, StopStreams, TimePasses, SendProbe, SendPlain,
                 SendMeasurement, ProbeReceived
  <2> QED BY <1>10, <2>1
<1> HIDE DEF AllTrue, Fed
<1> QED BY <1>5, <1>6, <1>8, <1>9, <1>11 DEF MetricsNext, MeasurementNext, TrafficNext

-----------------------------------------------------------------------------
(* Theorems *)

\* At the start nothing has been sent and nothing stored.
LEMMA MetricsStart ==
  ASSUME MetricsInit
  PROVE  MetricsInv
<1>1. MetricsType
  BY TypeInit
<1>2. /\ flight = {} /\ overtaken = {} /\ starting = FALSE
      /\ \A w \in Windows : window[w] = <<>> /\ arrived[w] = {}
      /\ \A w \in Windows : \A s \in Lengths : report[w][s] = NoReport
      /\ \A e \in Ends : active[e] = FALSE /\ feedback[e].reorders = 0
  BY DEF MetricsInit
<1>3. FlightInv
  BY <1>2 DEF FlightInv, Windows
<1>4. StartsInv
  BY <1>2 DEF StartsInv, Windows, Ends
<1>5. ClockInv
  <2>1. \A w \in Windows : 1..Len(window[w]) = {}
    BY <1>2
  <2> QED BY <1>2, <2>1 DEF ClockInv
<1>6. WindowInv
  <2>1. Ordered(<<>>) /\ Complete(<<>>, {}) /\ Latest(<<>>, {})
    BY DEF Ordered, Complete, Latest
  <2> QED BY <1>2, <2>1 DEF WindowInv
<1>7. EchoInv
  BY <1>2 DEF EchoInv
<1>8. ReportInv
  BY <1>2 DEF ReportInv
<1> QED BY <1>1, <1>3, <1>4, <1>5, <1>6, <1>7, <1>8 DEF MetricsInv

\* A step that changes nothing keeps every invariant.
LEMMA MetricsStutter ==
  ASSUME MetricsInv, UNCHANGED metricsVars
  PROVE  MetricsInv'
<1>1. MetricsType'
  BY DEF MetricsInv, metricsVars, MetricsType
<1>2. FlightInv' /\ StartsInv'
  BY DEF MetricsInv, metricsVars, FlightInv, StartsInv
<1>3. ClockInv' /\ EchoInv'
  BY DEF MetricsInv, metricsVars, ClockInv, EchoInv, ClockOf, Clock
<1>4. WindowInv' /\ ReportInv'
  BY DEF MetricsInv, metricsVars, WindowInv, ReportInv, Orderly
<1> QED BY <1>1, <1>2, <1>3, <1>4 DEF MetricsInv

\* The inductive invariant of the metrics: numbers are used once, windows in
\* order have no gaps, reports and the baseline are right about what arrived.
THEOREM MetricsInvariant == MetricsSpec => []MetricsInv
<1>1. MetricsInit => MetricsInv
  BY MetricsStart
<1>2. MetricsInv /\ [MetricsNext]_metricsVars => MetricsInv'
  <2>1. ASSUME MetricsInv, MetricsNext PROVE MetricsInv'
    <3>1. MetricsType' /\ FlightInv' /\ StartsInv' /\ ClockInv'
      BY <2>1, TypeKept, FlightKept, StartsKept, ClockKept DEF MetricsInv
    <3>2. WindowInv' /\ EchoInv'
      BY <2>1, WindowKept, EchoKept DEF MetricsInv
    <3>3. ReportInv'
      BY <2>1, <3>1, <3>2, ReportKept DEF MetricsInv
    <3> QED BY <3>1, <3>2, <3>3 DEF MetricsInv
  <2> QED BY <2>1, MetricsStutter
<1> QED BY <1>1, <1>2, PTL DEF MetricsSpec

\* Whatever the clocks, the order of arrival and the lengths of the windows, a
\* report shows reordering only where there was some, and otherwise its loss is
\* the number of probes of its range that did not arrive (calculate_metrics,
\* calculate_probe_stream_stats and calculate_client_s2c_stats).
THEOREM ReportsAreTrue == MetricsSpec => []ReportsTrue
<1>1. MetricsInv => ReportsTrue
  BY DEF MetricsInv, ReportInv, TrueReport, ReportsTrue
<1> QED BY <1>1, MetricsInvariant, PTL
=============================================================================
