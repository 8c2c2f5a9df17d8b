------------------------------- MODULE MCTrace -------------------------------
(***************************************************************************)
(* The packet tracker, with packets sent at any time (focus "tracker"), and *)
(* with the rounds of one connection as their sender (focus "rounds"): the  *)
(* latter leaves out expiry and quotes that are damaged or not about a TTL, *)
(* which the former has.                                                   *)
(***************************************************************************)
EXTENDS TraceRounds, TLC

CONSTANTS p1, p2, p3, u1, q1, q2, q3, c1, c2, c3, m1, m2

VARIABLE focus

\* Two probes of different connections with the same key, a packet without
\* TTL that also has it, and a probe with a key of its own; the probes of the
\* rounds.
MCKeyOf == [p \in Packets |->
  CASE p = p3 -> 2 [] p = q1 -> 3 [] p = q2 -> 4 [] p = q3 -> 5 [] OTHER -> 1]
MCFamilyOf == [p \in Packets |-> IF p = p3 THEN "v6" ELSE "v4"]
MCConnOf == [p \in Packets |-> IF p = p1 THEN c1 ELSE IF p \in {p2, p3, u1} THEN c2 ELSE c3]

MCPlan == <<"trace", "mtu">>
MCTries == [k \in Kinds |-> IF k = "trace" THEN 1 ELSE 0]
MCProbeAt == <<(1 :> q1 @@ 2 :> q2), (1 :> q3 @@ 2 :> q3)>>

RoundProbes == {q1, q2, q3}

\* The client is two hops away: these get through, the others make a router
\* answer.
Through == {q2}

-----------------------------------------------------------------------------
traceVars == <<vars, roundVars, focus>>

TraceInit == Init /\ RoundsInit /\ focus \in {"tracker", "rounds"}

Only(f, A) == focus = f /\ A /\ UNCHANGED <<roundVars, focus>>

Receive == ReceiveTracking /\ UNCHANGED <<roundVars, focus>>
Report(p) == TrackPacket(p) /\ UNCHANGED <<roundVars, focus>>
Push(l) == PushEvent(l) /\ UNCHANGED <<roundVars, focus>>
Old(p) == /\ focus = "tracker" \/ \A i \in Ids : at[i] \in {"none", "returned", "done"}
          /\ Expire(p) /\ UNCHANGED <<roundVars, focus>>
Cleanup == CleanupExpired /\ UNCHANGED <<roundVars, focus>>

TrackerNext ==
  \/ \E p \in Packets : Report(p)
  \/ \E p \in Packets \ RoundProbes : Only("tracker", SendPacket(p))
  \/ Receive
  \/ \E p \in Probes : Old(p)
  \/ Cleanup
  \/ \E l \in Listeners, m \in Messages, p \in Packets, intact \in BOOLEAN :
       \E type \in Parsed[l] : Only("tracker", MatchIcmpError(l, m, p, intact, type))
  \/ \E p \in RoundProbes \ Through : Only("rounds", MatchIcmpError("v4", m1, p, TRUE, 11))
  \/ \E l \in Listeners : Push(l)
  \/ \E c \in Conns : Only("tracker", DrainEvents(c))

Round(i) == RoundStep(i) /\ UNCHANGED focus
Answer(k) == Completed(k) /\ UNCHANGED focus

RoundsNext ==
  \/ focus = "rounds" /\ UNCHANGED focus /\ (Ask \/ ConnectionLost)
  \/ \E i \in Ids : Round(i)
  \/ \E k \in Kinds : Answer(k)
  \/ \E p \in RoundProbes : Transmit(p) /\ UNCHANGED focus
  \/ \E p \in Through : (ProbeArrives(p) \/ EchoArrives(p)) /\ UNCHANGED focus

TraceNext == TrackerNext \/ RoundsNext

Tracking == Receive \/ (\E p \in Packets : Report(p)) \/ (\E l \in Listeners : Push(l))
Aging == Cleanup \/ \E p \in Probes : Old(p)
Rounds == (\E i \in Ids : Round(i)) \/ \E k \in Kinds : Answer(k)

\* The tasks are always scheduled and time passes; the network, the client's
\* requests and the drains of the tracker's other users are not forced.  None
\* of the tasks can run for ever without the others' help (every probe is
\* reported, filed and expires once, every round has finitely many steps), so
\* fairness to the groups is fairness to each of their members.
TraceSpec ==
  /\ TraceInit
  /\ [][TraceNext]_traceVars
  /\ WF_traceVars(Tracking)
  /\ WF_traceVars(Aging)
  /\ WF_traceVars(Rounds)
=============================================================================
