---------------------------- MODULE Iperf3Server ----------------------------
(***************************************************************************)
(* The iperf3 server: one accept loop, one task per TCP connection, the    *)
(* map of test sessions keyed by cookie, and the protocol of a test.       *)
(*                                                                         *)
(* A test has a control connection and, over TCP, data connections that    *)
(* present the same cookie; over UDP its data arrives at one UDP socket    *)
(* bound to the server port.  The data tasks of a test run beside its      *)
(* protocol.  The client follows the iperf3 protocol but may be slow, stop *)
(* reading or go away at any time.                                         *)
(***************************************************************************)
EXTENDS Naturals, FiniteSets

CONSTANTS Controls,     \* control connections, one per test
          Datas,        \* TCP data connections
          TestOf,       \* the control connection whose cookie a data connection presents
          MaxSessions,  \* config.max_sessions
          MaxParallel,  \* bound on params.parallel
          None

Conns == Controls \cup Datas

ASSUME Iperf3Assumption == /\ Controls \cap Datas = {}
                           /\ TestOf \in [Datas -> Controls]
                           /\ MaxSessions \in Nat
                           /\ MaxParallel \in Nat
                           /\ None \notin Conns

\* Cookies are random: a control connection stands for its cookie.
Cookie(c) == IF c \in Datas THEN TestOf[c] ELSE c

VARIABLES pc,         \* where the connection and its task are
          sessions,   \* the connection whose session each cookie maps to
          streams,    \* data_streams of each session
          params,     \* what the client asked for
          told,       \* sessions that were sent CREATE_STREAMS
          bound,      \* sessions that own a UDP socket bound to the server port
          got,        \* udp_streams of each session, counted
          cancelled,  \* session.cancelled
          busy,       \* data tasks of each session that have not finished
          expired,    \* sessions whose test deadline has passed
          gone,       \* connections the client has closed
          deaf        \* data connections the client no longer reads from

vars == <<pc, sessions, streams, params, told, bound, got, cancelled, busy,
          expired, gone, deaf>>

Params == [udp : BOOLEAN, parallel : 1..MaxParallel, reverse : BOOLEAN]

Labels == {"closed", "backlog", "unauthorized", "full", "cookie", "insert",
           "params", "streams", "udp_wait", "running", "ending", "results",
           "display", "remove", "data", "ended"}

\* Between the insert into the map and the removal from it.
Active == {"params", "streams", "udp_wait", "running", "ending", "results",
           "display", "remove"}

TypeOK ==
  /\ pc \in [Conns -> Labels]
  /\ sessions \in [Controls -> Conns \cup {None}]
  /\ streams \in [Conns -> SUBSET Datas]
  /\ params \in [Conns -> Params \cup {None}]
  /\ told \in SUBSET Conns
  /\ bound \in SUBSET Conns /\ Cardinality(bound) <= 1
  /\ got \in [Conns -> 0..MaxParallel]
  /\ cancelled \in SUBSET Conns
  /\ busy \in [Conns -> SUBSET Conns]
  /\ expired \in SUBSET Conns
  /\ gone \in SUBSET Conns
  /\ deaf \in SUBSET Datas

Init ==
  /\ pc = [c \in Conns |-> "closed"]
  /\ sessions = [k \in Controls |-> None]
  /\ streams = [c \in Conns |-> {}]
  /\ params = [c \in Conns |-> None]
  /\ told = {}
  /\ bound = {}
  /\ got = [c \in Conns |-> 0]
  /\ cancelled = {}
  /\ busy = [c \in Conns |-> {}]
  /\ expired = {}
  /\ gone = {}
  /\ deaf = {}

Go(c, label) == pc' = [pc EXCEPT ![c] = label]
Registered   == {k \in Controls : sessions[k] # None}

-----------------------------------------------------------------------------
(* The accept loop *)

\* The client opens as many data connections as it asked for.
StreamsLeft(t) ==
  /\ ~params[t].udp
  /\ Cardinality({d \in Datas : TestOf[d] = t /\ pc[d] # "closed"}) < params[t].parallel

\* The client connects; a data connection once its test was told to.
Connect(c) ==
  /\ pc[c] = "closed"
  /\ c \in Datas => TestOf[c] \in told /\ StreamsLeft(TestOf[c])
  /\ Go(c, "backlog")
  /\ UNCHANGED <<sessions, streams, params, told, bound, got, cancelled, busy,
                 expired, gone, deaf>>

\* Address check, then the limit on sessions, then a task for the connection.
Accept(c, allowed) ==
  /\ pc[c] = "backlog"
  /\ \/ ~allowed /\ Go(c, "unauthorized")
     \/ allowed /\ Cardinality(Registered) >= MaxSessions /\ Go(c, "full")
     \/ allowed /\ ~(Cardinality(Registered) >= MaxSessions) /\ Go(c, "cookie")
  /\ UNCHANGED <<sessions, streams, params, told, bound, got, cancelled, busy,
                 expired, gone, deaf>>

-----------------------------------------------------------------------------
(* handle_session *)

\* The cookie of a registered session: the connection becomes a data stream.
AddDataStream(c) ==
  LET s == sessions[Cookie(c)]
  IN /\ pc[c] = "cookie"
     /\ s # None
     /\ streams' = [streams EXCEPT ![s] = @ \cup {c}]
     /\ Go(c, "data")
     /\ UNCHANGED <<sessions, params, told, bound, got, cancelled, busy,
                    expired, gone, deaf>>

NewSessionAlways(c) ==  \* mutant: no look at the map
  /\ pc[c] = "cookie"
  /\ Go(c, "insert")
  /\ UNCHANGED <<sessions, streams, params, told, bound, got, cancelled, busy, expired, gone, deaf>>

\* Any other cookie: the read guard is given up before the insert.
NewSession(c) ==
  /\ pc[c] = "cookie"
  /\ sessions[Cookie(c)] = None
  /\ Go(c, "insert")
  /\ UNCHANGED <<sessions, streams, params, told, bound, got, cancelled, busy,
                 expired, gone, deaf>>

\* The insert, and PARAM_EXCHANGE to the client.
InsertSession(c) ==
  /\ pc[c] = "insert"
  /\ sessions' = [sessions EXCEPT ![Cookie(c)] = c]
  /\ Go(c, "params")
  /\ UNCHANGED <<streams, params, told, bound, got, cancelled, busy, expired,
                 gone, deaf>>

RemoveSessionForgets(c) ==  \* mutant: an early return skips the removal
  /\ pc[c] = "remove"
  /\ bound' = IF busy[c] = {} THEN bound \ {c} ELSE bound
  /\ Go(c, "ended")
  /\ UNCHANGED <<sessions, streams, params, told, got, cancelled, busy, expired, gone, deaf>>

\* The protocol returned, with or without an error: the cookie leaves the map
\* and the session is dropped.  Its UDP socket stays open while a data task
\* still has it.
RemoveSession(c) ==
  /\ pc[c] = "remove"
  /\ sessions' = [sessions EXCEPT ![Cookie(c)] = None]
  /\ bound' = IF busy[c] = {} THEN bound \ {c} ELSE bound
  /\ Go(c, "ended")
  /\ UNCHANGED <<streams, params, told, got, cancelled, busy, expired, gone, deaf>>

-----------------------------------------------------------------------------
(* run_session_protocol *)

\* The client's parameters arrive; CREATE_STREAMS is sent.
ReadParams(c, p) ==
  /\ pc[c] = "params"
  /\ c \in Controls \ gone
  /\ params' = [params EXCEPT ![c] = p]
  /\ told' = told \cup {c}
  /\ Go(c, "streams")
  /\ UNCHANGED <<sessions, streams, bound, got, cancelled, busy, expired, gone, deaf>>

\* TEST_START and TEST_RUNNING are sent and one task per stream is started.
StartTest(c) ==
  /\ busy' = [busy EXCEPT ![c] = IF params[c].udp THEN {c} ELSE streams[c]]
  /\ Go(c, "running")

\* TCP: the poll finds as many data streams as the client asked for.
StreamsReady(c) ==
  /\ pc[c] = "streams" /\ ~params[c].udp
  /\ Cardinality(streams[c]) >= params[c].parallel
  /\ StartTest(c)
  /\ UNCHANGED <<sessions, streams, params, told, bound, got, cancelled,
                 expired, gone, deaf>>

\* Ten seconds without the expected streams end the session.
StreamTimeout(c) ==
  /\ pc[c] \in {"streams", "udp_wait"}
  /\ bound' = IF pc[c] = "udp_wait" THEN bound \ {c} ELSE bound
  /\ Go(c, "remove")
  /\ UNCHANGED <<sessions, streams, params, told, got, cancelled, busy,
                 expired, gone, deaf>>

\* UDP: bind the server port for the next stream, which fails while any
\* session, this one included, has it bound.
UdpBind(c) ==
  /\ pc[c] = "streams" /\ params[c].udp
  /\ \/ bound = {} /\ bound' = {c} /\ Go(c, "udp_wait")
     \/ bound # {} /\ Go(c, "remove") /\ UNCHANGED bound
  /\ UNCHANGED <<sessions, streams, params, told, got, cancelled, busy,
                 expired, gone, deaf>>

\* The client's first datagram: the socket becomes a stream of the session.
UdpDatagram(c) ==
  /\ pc[c] = "udp_wait"
  /\ c \notin gone
  /\ got' = [got EXCEPT ![c] = @ + 1]
  /\ \/ got[c] + 1 < params[c].parallel /\ Go(c, "streams") /\ UNCHANGED busy
     \/ got[c] + 1 = params[c].parallel /\ StartTest(c)
  /\ UNCHANGED <<sessions, streams, params, told, bound, cancelled, expired, gone, deaf>>

\* TEST_END: the data tasks are cancelled and awaited.
TestEnd(c) ==
  /\ pc[c] = "running"
  /\ c \notin gone
  /\ cancelled' = cancelled \cup {c}
  /\ Go(c, "ending")
  /\ UNCHANGED <<sessions, streams, params, told, bound, got, busy, expired, gone, deaf>>

ExchangeEarly(c) ==  \* mutant: the handles are not awaited
  /\ pc[c] = "ending"
  /\ Go(c, "results")
  /\ UNCHANGED <<sessions, streams, params, told, bound, got, cancelled, busy, expired, gone, deaf>>

\* All tasks have finished: EXCHANGE_RESULTS.
Exchange(c) ==
  /\ pc[c] = "ending"
  /\ busy[c] = {}
  /\ Go(c, "results")
  /\ UNCHANGED <<sessions, streams, params, told, bound, got, cancelled, busy,
                 expired, gone, deaf>>

\* The client's results are read, the server's sent, then DISPLAY_RESULTS.
SendResults(c) ==
  /\ pc[c] = "results"
  /\ c \notin gone
  /\ Go(c, "display")
  /\ UNCHANGED <<sessions, streams, params, told, bound, got, cancelled, busy,
                 expired, gone, deaf>>

\* IPERF_DONE is answered with SERVER_TERMINATE.
IperfDone(c) ==
  /\ pc[c] = "display"
  /\ c \notin gone
  /\ Go(c, "remove")
  /\ UNCHANGED <<sessions, streams, params, told, bound, got, cancelled, busy,
                 expired, gone, deaf>>

\* A read of the control connection fails: the protocol returns at once,
\* without a cancel.
ReadFails(c) ==
  /\ c \in gone
  /\ \/ pc[c] \in {"params", "running", "results", "display"} /\ Go(c, "remove")
     \/ pc[c] = "cookie" /\ Go(c, "ended")
  /\ UNCHANGED <<sessions, streams, params, told, bound, got, cancelled, busy,
                 expired, gone, deaf>>

-----------------------------------------------------------------------------
(* The data tasks *)

\* A reverse test writes to its TCP streams with write_all, which returns only
\* if the client reads or the connection is closed.
Stuck(c, d) == params[c].reverse /\ ~params[c].udp /\ d \in deaf \ gone

TaskEndsNoDeadline(c, d) ==  \* mutant: the loop looks at the flag only
  /\ d \in busy[c]
  /\ ~Stuck(c, d)
  /\ c \in cancelled \/ (d \in Datas /\ d \in gone)
  /\ busy' = [busy EXCEPT ![c] = @ \ {d}]
  /\ bound' = IF pc[c] = "ended" /\ busy[c] = {d} THEN bound \ {c} ELSE bound
  /\ UNCHANGED <<pc, sessions, streams, params, told, got, cancelled, expired, gone, deaf>>

\* A task leaves its loop: cancelled, past the deadline, or its connection
\* closed.
TaskEnds(c, d) ==
  /\ d \in busy[c]
  /\ ~Stuck(c, d)
  /\ c \in cancelled \cup expired \/ (d \in Datas /\ d \in gone)
  /\ busy' = [busy EXCEPT ![c] = @ \ {d}]
  /\ bound' = IF pc[c] = "ended" /\ busy[c] = {d} THEN bound \ {c} ELSE bound
  /\ UNCHANGED <<pc, sessions, streams, params, told, got, cancelled, expired,
                 gone, deaf>>

\* The test's duration is over.
Deadline(c) ==
  /\ busy[c] # {}
  /\ c \notin expired
  /\ expired' = expired \cup {c}
  /\ UNCHANGED <<pc, sessions, streams, params, told, bound, got, cancelled,
                 busy, gone, deaf>>

-----------------------------------------------------------------------------
(* The client *)

\* The client closes a connection.
Disconnect(c) ==
  /\ pc[c] \notin {"closed", "ended", "unauthorized", "full"}
  /\ c \notin gone
  /\ gone' = gone \cup {c}
  /\ UNCHANGED <<pc, sessions, streams, params, told, bound, got, cancelled,
                 busy, expired, deaf>>

\* The client reads no more from a data connection.
StopReading(d) ==
  /\ pc[d] = "data"
  /\ params[TestOf[d]].reverse
  /\ d \notin deaf
  /\ deaf' = deaf \cup {d}
  /\ UNCHANGED <<pc, sessions, streams, params, told, bound, got, cancelled,
                 busy, expired, gone>>

ClientNext(c) == Connect(c) \/ Disconnect(c)

ServerNext(c) ==
  \/ \E allowed \in BOOLEAN : Accept(c, allowed)
  \/ AddDataStream(c) \/ NewSession(c) \/ InsertSession(c) \/ RemoveSession(c)
  \/ \E p \in Params : ReadParams(c, p)
  \/ StreamsReady(c) \/ StreamTimeout(c) \/ UdpBind(c) \/ UdpDatagram(c)
  \/ TestEnd(c) \/ Exchange(c) \/ SendResults(c) \/ IperfDone(c) \/ ReadFails(c)

Next ==
  \/ \E c \in Conns : ClientNext(c) \/ ServerNext(c) \/ Deadline(c)
  \/ \E d \in Datas : StopReading(d)
  \/ \E c, d \in Conns : TaskEnds(c, d)

Spec == Init /\ [][Next]_vars

\* What the task of a connection does by itself; at most one of these can be
\* taken at a time.
TaskStep(c) ==
  \/ \E allowed \in BOOLEAN : Accept(c, allowed)
  \/ AddDataStream(c) \/ NewSession(c) \/ ReadFails(c) \/ InsertSession(c) \/ RemoveSession(c)
  \/ StreamsReady(c) \/ StreamTimeout(c) \/ UdpBind(c) \/ Exchange(c)

\* The server's tasks run and time passes; the client owes nothing.
ServerFair ==
  \A c \in Conns :
    /\ WF_vars(TaskStep(c)) /\ WF_vars(Deadline(c))
    /\ WF_vars(\E d \in Conns : TaskEnds(c, d))

FairSpec == Spec /\ ServerFair

\* A client that follows the protocol to its end or closes its connections.
ClientFair ==
  \A c \in Conns :
    /\ WF_vars(\/ \E p \in Params : ReadParams(c, p)
               \/ UdpDatagram(c) \/ TestEnd(c) \/ SendResults(c) \/ IperfDone(c)
               \/ pc[c] \in Active \ {"remove"} /\ Disconnect(c))
    /\ c \in Datas => WF_vars(c \in deaf /\ Disconnect(c))

LiveSpec == FairSpec /\ ClientFair

-----------------------------------------------------------------------------
(* Properties *)

\* No slot of the pool is leaked: whichever way handle_session ends, an entry
\* of the map belongs to a session with that cookie whose task has not yet
\* removed it.
SlotHeldByLiveSession ==
  \A k \in Registered : pc[sessions[k]] \in Active /\ Cookie(sessions[k]) = k

\* From insert to removal the session of a control connection is the one its
\* cookie finds, so that its data streams reach it: neither another session's
\* end nor a late connection evicts it.
TestFindableByCookie == \A c \in Controls : pc[c] \in Active => sessions[c] = c

\* A test runs with all the streams the client asked for, and the byte counts
\* are reported only after the last data task has stopped changing them.
ResultsFinal ==
  \A c \in Conns :
    /\ pc[c] \in {"running", "ending", "results", "display"} =>
         IF params[c].udp THEN got[c] = params[c].parallel
                          ELSE Cardinality(streams[c]) >= params[c].parallel
    /\ pc[c] \in {"results", "display"} => busy[c] = {}

\* With a client that goes on or hangs up every slot of the pool is freed, and
\* the UDP port with it, also after a client that went away in mid-test, when
\* the tasks are not cancelled and only the deadline ends them.
ResourcesReleased ==
  /\ \A k \in Controls : k \in Registered ~> k \notin Registered
  /\ \A c \in Conns : c \in bound ~> c \notin bound

\* "Maximum number of concurrent test sessions".
SessionLimit == Cardinality(Registered) <= MaxSessions
=============================================================================
