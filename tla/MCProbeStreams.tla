--------------------------- MODULE MCProbeStreams ---------------------------
(***************************************************************************)
(* The measurements of one session: a behaviour is about the tasks, or     *)
(* about what the ends make of measurement probes, or of server traffic.   *)
(***************************************************************************)
EXTENDS ProbeStreams, ProbeMetrics

VARIABLE focus

MCOffsets == {-2, 3}

MeasuringVars == <<vars, metricsVars, focus>>

MeasuringInit ==
  /\ Init /\ MetricsInit
  /\ focus \in {"tasks", "measurement", "traffic"}
  /\ focus = "tasks" => offset = Max(Offsets)

Figuring == \/ focus = "measurement" /\ MeasurementNext
            \/ focus = "traffic" /\ TrafficNext
            \/ focus # "tasks" /\ TimePasses

MeasuringNext == \/ focus = "tasks" /\ Next /\ UNCHANGED <<metricsVars, focus>>
                 \/ Figuring /\ UNCHANGED <<vars, focus>>

\* The fairness of ProbeStreams: tokio runs every task that can run.
MeasuringSpec ==
  /\ MeasuringInit
  /\ [][MeasuringNext]_MeasuringVars
  /\ TaskFairness
=============================================================================
