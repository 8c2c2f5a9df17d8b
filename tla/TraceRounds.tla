----------------------------- MODULE TraceRounds -----------------------------
(***************************************************************************)
(* The traceroute and MTU rounds of one connection (Me), on top of the     *)
(* packet tracker.  The client asks for a round whenever its stagger wait  *)
(* is over; every request spawns a server task, so that rounds overlap;    *)
(* all of them drain the same events, and each reports its end, which the  *)
(* client counts.                                                          *)
(*                                                                         *)
(* A task is a step from one await to the next.  A probe is handed to the  *)
(* test probe channel and goes out some time later; a wait of the client   *)
(* ends on an answer or a countdown, hence at any time.  RTTs, addresses   *)
(* and packet sizes are left out.                                          *)
(***************************************************************************)
EXTENDS PacketTracker, Integers

CONSTANTS Me,       \* the connection
          Plan,     \* the rounds the client asks for: "trace" ones, then "mtu" ones
          MaxTtl,   \* MAX_TTL, and the client's default for path_ttl
          Tries,    \* how often a round goes on waiting for late answers, by kind
          ProbeAt   \* the probe of each round and TTL

Kinds == {"trace", "mtu"}
Ids == 1..Len(Plan)

ASSUME RoundsAssumption ==
  /\ Me \in Conns
  /\ Plan \in Seq(Kinds)
  /\ MaxTtl \in Nat \ {0}
  /\ Tries \in [Kinds -> Nat]
  /\ ProbeAt \in [Ids -> [1..MaxTtl -> Probes]]
  /\ \A i \in Ids, t \in 1..MaxTtl : ConnOf[ProbeAt[i][t]] = Me

VARIABLES control, testprobe,  \* the two data channels are open
          asked,      \* client: how many rounds of the plan were asked for
          started,    \* client: traceroute_started, mtu_traceroute_started
          done,       \* client: traceroute_done, mtu_traceroute_done
          client_ttl, \* client: path_ttl
          path_ttl,   \* server: path_ttl
          echoes,     \* probes whose echo is on its way to the server
          queued,     \* probes the channel has taken and not yet sent
          at,         \* where the task of each round is
          ttl,        \* its current_ttl
          last,       \* the TTL it ends with
          out,        \* its n_probes_out
          tries,      \* its drain count
          hops,       \* history: the hop messages sent to the client
          ended       \* completion messages sent to the client, by kind

roundVars == <<control, testprobe, asked, started, done, client_ttl, path_ttl, echoes,
               queued, at, ttl, last, out, tries, hops, ended>>

clientVars == <<asked, started, done, client_ttl>>

TtlOf(p) == CHOOSE t \in 1..MaxTtl : \E i \in Ids : ProbeAt[i][t] = p

RoundsInit ==
  /\ control = TRUE /\ testprobe = TRUE
  /\ asked = 0
  /\ started = [k \in Kinds |-> 0]
  /\ done = [k \in Kinds |-> 0]
  /\ ended = [k \in Kinds |-> 0]
  /\ client_ttl = None /\ path_ttl = None /\ echoes = {}
  /\ queued = {}
  /\ at = [i \in Ids |-> "none"]
  /\ ttl = [i \in Ids |-> 1]
  /\ last = [i \in Ids |-> MaxTtl]
  /\ out = [i \in Ids |-> 0]
  /\ tries = [i \in Ids |-> Tries[Plan[i]]]
  /\ hops = {}

-----------------------------------------------------------------------------
(* The client *)

\* The next request: counted, whether or not it can be sent.  An MTU round
\* stops short of the TTL with which the first probe arrived.
Ask ==
  LET i == asked + 1 IN
  /\ asked < Len(Plan)
  /\ asked' = i
  /\ started' = [started EXCEPT ![Plan[i]] = @ + 1]
  /\ at' = [at EXCEPT ![i] = IF control THEN "begin" ELSE "none"]
  /\ last' = [last EXCEPT ![i] =
       IF Plan[i] = "trace" THEN MaxTtl
       ELSE (IF client_ttl = None THEN MaxTtl ELSE client_ttl) - 1]
  /\ UNCHANGED <<control, testprobe, done, client_ttl, path_ttl, echoes, queued, ttl, out,
                 tries, hops, ended, vars>>

\* A probe gets through to the client, which remembers the first one's TTL
\* and echoes it.
ProbeArrives(p) ==
  /\ p \in sent /\ control
  /\ \E i \in Ids, t \in 1..MaxTtl : ProbeAt[i][t] = p
  /\ client_ttl' = IF client_ttl = None THEN TtlOf(p) ELSE client_ttl
  /\ echoes' = echoes \cup {p}
  /\ UNCHANGED <<control, testprobe, asked, started, done, path_ttl, queued, at, ttl, last,
                 out, tries, hops, ended, vars>>

\* TracerouteCompleted or MtuTracerouteCompleted arrives.
Completed(k) ==
  /\ done[k] < ended[k] /\ control
  /\ done' = [done EXCEPT ![k] = @ + 1]
  /\ UNCHANGED <<control, testprobe, asked, started, client_ttl, path_ttl, echoes, queued,
                 at, ttl, last, out, tries, hops, ended, vars>>

-----------------------------------------------------------------------------
(* The server's round *)

\* The rest of the round once the TTL t is through.
NextTtl(i, t) ==
  IF t < last[i]
  THEN ttl' = [ttl EXCEPT ![i] = t + 1] /\ at' = [at EXCEPT ![i] = "send"]
  ELSE at' = [at EXCEPT ![i] = "drain"] /\ UNCHANGED ttl

\* The task starts; without a control channel it returns at once.
Begin(i) ==
  /\ at[i] = "begin"
  /\ IF control THEN NextTtl(i, 0) ELSE at' = [at EXCEPT ![i] = "returned"] /\ UNCHANGED ttl
  /\ UNCHANGED <<control, testprobe, clientVars, path_ttl, echoes, queued, last, out, tries,
                 hops, ended, vars>>

\* One TTL: the channel takes the probe and the task sleeps; or the channel is
\* not open, or send_with_options fails, and the TTL is skipped.
SendProbe(i, ok) ==
  /\ at[i] = "send"
  /\ ok => testprobe
  /\ IF ok
     THEN /\ queued' = queued \cup {ProbeAt[i][ttl[i]]}
          /\ out' = [out EXCEPT ![i] = @ + 1]
          /\ at' = [at EXCEPT ![i] = "sleep"]
          /\ UNCHANGED ttl
     ELSE NextTtl(i, ttl[i]) /\ UNCHANGED <<queued, out>>
  /\ UNCHANGED <<control, testprobe, clientVars, path_ttl, echoes, last, tries, hops,
                 ended, vars>>

HopOfRound(i, e) ==  \* mutant: the hop is the TTL the round is at
  [icmp |-> e.icmp, hop |-> ttl[i], kind |-> Plan[i]]

\* A hop message is made from the event.
Hop(i, e) == [icmp |-> e.icmp, hop |-> TtlOf(e.packet), kind |-> Plan[i]]

\* drain_traceroute_events, drain_mtu_events: every event of the connection is
\* taken and reported, whichever round its probe was of; only a traceroute
\* round counts them.
Drain(i) ==
  LET mine == {e \in queue : ConnOf[e.packet] = Me} IN
  /\ handed' = [handed EXCEPT ![Me] = @ \cup mine]
  /\ queue' = queue \ mine
  /\ hops' = IF control THEN hops \cup {Hop(i, e) : e \in mine} ELSE hops
  /\ out' = IF Plan[i] = "trace" THEN [out EXCEPT ![i] = @ - Cardinality(mine)] ELSE out
  /\ UNCHANGED <<sent, reported, channel, index, stale, about, held, matches, unmatched>>

\* The sleep after a probe is over.
SleepOver(i) ==
  /\ at[i] = "sleep"
  /\ Drain(i)
  /\ NextTtl(i, ttl[i])
  /\ UNCHANGED <<control, testprobe, clientVars, path_ttl, echoes, queued, last, tries, ended>>

Complete(i) ==
  /\ at' = [at EXCEPT ![i] = "done"]
  /\ ended' = IF control THEN [ended EXCEPT ![Plan[i]] = @ + 1] ELSE ended

\* A turn of the loop that waits for late answers; an MTU round looks at its
\* count before it sleeps, a traceroute round after.
LastDrains(i) ==
  /\ at[i] = "drain"
  /\ Drain(i)
  /\ IF Plan[i] = "trace"
     THEN at' = [at EXCEPT ![i] = "pause"] /\ UNCHANGED <<ended, tries>>
     ELSE IF tries[i] = 0
     THEN Complete(i) /\ UNCHANGED tries
     ELSE tries' = [tries EXCEPT ![i] = @ - 1] /\ UNCHANGED <<at, ended>>
  /\ UNCHANGED <<control, testprobe, clientVars, path_ttl, echoes, queued, ttl, last>>

PauseOverUnbounded(i) ==  \* mutant: the count does not end the loop
  /\ at[i] = "pause"
  /\ IF path_ttl # None \/ out[i] = 0
     THEN Complete(i) /\ UNCHANGED tries
     ELSE at' = [at EXCEPT ![i] = "drain"] /\ UNCHANGED <<ended, tries>>
  /\ UNCHANGED <<control, testprobe, clientVars, path_ttl, echoes, queued, ttl, last, out,
                 hops, vars>>

\* The end of a traceroute round's turn.
PauseOver(i) ==
  /\ at[i] = "pause"
  /\ IF path_ttl # None \/ tries[i] = 0 \/ out[i] = 0
     THEN Complete(i) /\ UNCHANGED tries
     ELSE /\ tries' = [tries EXCEPT ![i] = @ - 1]
          /\ at' = [at EXCEPT ![i] = "drain"]
          /\ UNCHANGED ended
  /\ UNCHANGED <<control, testprobe, clientVars, path_ttl, echoes, queued, ttl, last, out,
                 hops, vars>>

RoundStep(i) == \/ Begin(i)
                \/ \E ok \in BOOLEAN : SendProbe(i, ok)
                \/ SleepOver(i)
                \/ LastDrains(i)
                \/ PauseOver(i)

\* handle_testprobe_echo_packet, for a probe with a TTL.
EchoArrives(p) ==
  /\ p \in echoes
  /\ echoes' = echoes \ {p}
  /\ path_ttl' = IF path_ttl = None THEN TtlOf(p) ELSE path_ttl
  /\ UNCHANGED <<control, testprobe, clientVars, queued, at, ttl, last, out, tries, hops,
                 ended, vars>>

\* A probe the channel has taken leaves the host.
Transmit(p) ==
  /\ p \in queued
  /\ queued' = queued \ {p}
  /\ SendPacket(p)
  /\ UNCHANGED <<control, testprobe, clientVars, path_ttl, echoes, at, ttl, last, out, tries,
                 hops, ended>>

\* The client goes away, or its connection breaks.
ConnectionLost ==
  /\ control \/ testprobe
  /\ control' = FALSE /\ testprobe' = FALSE
  /\ UNCHANGED <<clientVars, path_ttl, echoes, queued, at, ttl, last, out, tries, hops,
                 ended, vars>>

-----------------------------------------------------------------------------
\* The tracker with the rounds beside it; packets of other senders, and drains
\* for other connections, come at any time.
TracerouteNext ==
  \/ Next /\ UNCHANGED roundVars
  \/ Ask
  \/ ConnectionLost
  \/ \E i \in Ids : RoundStep(i)
  \/ \E k \in Kinds : Completed(k)
  \/ \E p \in Packets : ProbeArrives(p) \/ EchoArrives(p) \/ Transmit(p)

TracerouteSpec == Init /\ RoundsInit /\ [][TracerouteNext]_<<vars, roundVars>>

-----------------------------------------------------------------------------
(* Properties *)

\* The hop number the client is shown beside a router's answer is the TTL of
\* the probe that the router quoted, once per answer, whichever overlapping
\* round takes the event, unless two probes share a key (drain_traceroute_events,
\* drain_mtu_events).
HopsTrue ==
  \A h \in hops :
    LET quoted == about[h.icmp] IN
    /\ (\A p \in Probes : KeyOf[p] = KeyOf[quoted] => p = quoted) => h.hop = TtlOf(quoted)
    /\ \A g \in hops : g.icmp = h.icmp => g = h

\* The client never counts more ends than starts, which its unsigned
\* subtraction relies on, however rounds overlap (lib.rs, the stagger loops).
CountsSound == \A k \in Kinds : done[k] <= started[k]

\* Every round the client asked for ends, and the client hears of it unless
\* the connection is lost, although a round may take the events of another and
\* miss its own; and its counts stay sound (lib.rs, the stagger loops).
RoundsAnswered ==
  /\ []CountsSound
  /\ []<>(control => done = started)
=============================================================================
