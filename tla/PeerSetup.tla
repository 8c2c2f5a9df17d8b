------------------------------ MODULE PeerSetup ------------------------------
(***************************************************************************)
(* The set-up of one peer connection, from the client's offer until its    *)
(* polling for server candidates is over and the server has announced that *)
(* it is ready.  ICE candidates travel three ways: in the server's answer, *)
(* in requests of the client that overtake each other, and in a queue the  *)
(* client polls and empties; requests and responses get lost.  Meanwhile   *)
(* the connection may come up, fail to, or be dropped by the server.       *)
(*                                                                         *)
(* A candidate is an atom with a kind of address.  The rest of an SDP, and *)
(* ICE itself, are external.                                               *)
(***************************************************************************)
EXTENDS Integers, FiniteSets

CONSTANTS ServerHosts,  \* the server's addresses, each a candidate
          ClientHosts,  \* the candidates the browser finds
          KindOf,       \* the kind of address of a candidate; "name" is an mDNS name
          PollSleepMs   \* POLL_SLEEP_MS

Versions == {"ipv4", "ipv6"}

ASSUME PeerAssumption ==
  /\ KindOf \in [ServerHosts \cup ClientHosts -> Versions \cup {"name"}]
  /\ PollSleepMs \in Nat \ {0}

VARIABLES ip_version,        \* what the client asked for
          setup,             \* where new_with_ip_version_and_mode is
          handler,           \* where signaling_start is
          gathered,          \* candidates the server's peer has gathered
          storing,           \* tasks about to store one of them
          ice_candidates,    \* ClientSession.ice_candidates
          answer,            \* the candidates in the answer
          in_time,           \* history: handle_offer saw the gathering complete
          listed,            \* the session is in the client table
          found,             \* candidates the browser has found
          gathering_done,    \* the browser's iceGatheringState is complete
          posting,           \* requests to /api/signaling/ice under way
          server_remote,     \* the remote candidates of the server's peer
          client_remote,     \* the remote candidates of the browser's peer
          poll, poll_count, should_stop, fetched,  \* the polling task and its response
          ice_state, connection_state,             \* of the browser's peer
          addresses_updated, \* the flag the two state listeners share
          reading,           \* tasks of theirs that read the statistics
          shown,             \* history: how often the page got the addresses
          chans,             \* DataChannels: the channels that are Some
          opening, open,     \* the channel being accepted, and those that are open
          ready_sent         \* ServerSideReady messages sent

offerVars == <<ip_version, setup, handler, answer, in_time, listed>>
gatherVars == <<gathered, storing, ice_candidates>>
browserVars == <<found, gathering_done, posting>>
remoteVars == <<server_remote, client_remote>>
pollVars == <<poll, poll_count, should_stop, fetched>>
upVars == <<ice_state, connection_state, addresses_updated, reading, shown>>
channelVars == <<chans, opening, open, ready_sent>>
peerVars == <<ip_version, setup, handler, answer, in_time, listed, gathered, storing,
              ice_candidates, found, gathering_done, posting, server_remote, client_remote,
              poll, poll_count, should_stop, fetched, ice_state, connection_state,
              addresses_updated, reading, shown, chans, opening, open, ready_sent>>

Labels == {"probe", "bulk", "control", "testprobe"}

PeerInit ==
  /\ ip_version \in Versions
  /\ setup = "new" /\ handler = "idle"
  /\ gathered = {} /\ storing = {} /\ ice_candidates = {} /\ answer = {}
  /\ in_time = FALSE /\ listed = FALSE
  /\ found = {} /\ gathering_done = FALSE /\ posting = {}
  /\ server_remote = {} /\ client_remote = {}
  /\ poll = "none" /\ poll_count = 0 /\ should_stop = FALSE /\ fetched = {}
  /\ ice_state = "new" /\ connection_state = "new"
  /\ addresses_updated = FALSE /\ reading = 0 /\ shown = 0
  /\ chans = {} /\ opening = "none" /\ open = {} /\ ready_sent = 0

-----------------------------------------------------------------------------
(* Filters *)

IsNameBasedCandidate(c) == KindOf[c] = "name"

\* A colon means IPv6, otherwise a dot IPv4: a name would pass for IPv4.
GetCandidateIpVersion(c) == IF KindOf[c] = "ipv6" THEN "ipv6" ELSE "ipv4"

\* What all filters have in common.
Wanted(c) == ~IsNameBasedCandidate(c) /\ GetCandidateIpVersion(c) = ip_version

\* filter_sdp_candidates
Filtered(cs) == {c \in cs : Wanted(c)}

-----------------------------------------------------------------------------
(* Offer and answer *)

\* create_peer_connection restricts the network types; mDNS is off.
Gatherable == {h \in ServerHosts : KindOf[h] = ip_version}

\* The client has its channels and its offer, and sends the offer; the server
\* creates its peer, installs the callbacks and sets both descriptions, which
\* starts the gathering.
SendOffer ==
  /\ setup = "new"
  /\ setup' = "offered"
  /\ handler' = "gathering"
  /\ UNCHANGED <<ip_version, answer, in_time, listed, gatherVars, browserVars, remoteVars,
                 pollVars, upVars, channelVars>>

\* An error in the handler or on the way; the client gives up.  A handler that
\* answered already has listed its session, and is not told.
OfferFails ==
  /\ setup = "offered"
  /\ setup' = "failed"
  /\ handler' = IF handler = "gathering" THEN "failed" ELSE handler
  /\ UNCHANGED <<ip_version, answer, in_time, listed, gatherVars, browserVars, remoteVars,
                 pollVars, upVars, channelVars>>

\* on_ice_candidate: a task is spawned for each candidate.
Gather(c) ==
  /\ handler \in {"gathering", "answered"}
  /\ c \in Gatherable \ gathered
  /\ gathered' = gathered \cup {c}
  /\ storing' = storing \cup {c}
  /\ UNCHANGED <<ice_candidates, offerVars, browserVars, remoteVars, pollVars, upVars,
                 channelVars>>

\* ... which filters it and stores it under the lock of the queue.
Store(c) ==
  /\ c \in storing
  /\ storing' = storing \ {c}
  /\ ice_candidates' = ice_candidates \cup Filtered({c})
  /\ UNCHANGED <<gathered, offerVars, browserVars, remoteVars, pollVars, upVars, channelVars>>

AnswerAsCreated(complete) ==  \* mutant: the answer as created, before any gathering
  /\ handler = "gathering"
  /\ complete => gathered = Gatherable
  /\ handler' = "answered"
  /\ answer' = {}
  /\ in_time' = complete
  /\ listed' = TRUE
  /\ UNCHANGED <<ip_version, setup, gatherVars, browserVars, remoteVars, pollVars, upVars,
                 channelVars>>

\* handle_offer waits for the gathering, for ten seconds at most, and takes
\* the local description as it is then; signaling_start filters it, lists the
\* session and answers.
Answer(complete) ==
  /\ handler = "gathering"
  /\ complete => gathered = Gatherable
  /\ handler' = "answered"
  /\ answer' = Filtered(gathered)
  /\ in_time' = complete
  /\ listed' = TRUE
  /\ UNCHANGED <<ip_version, setup, gatherVars, browserVars, remoteVars, pollVars, upVars,
                 channelVars>>

\* The answer arrives, and the client sets its local description.
AnswerArrives ==
  /\ setup = "offered" /\ handler = "answered"
  /\ setup' = "local"
  /\ UNCHANGED <<ip_version, handler, answer, in_time, listed, gatherVars, browserVars,
                 remoteVars, pollVars, upVars, channelVars>>

CheckStopPolling == gathering_done /\ connection_state = "connected"

MaxPolls == (10 * PollSleepMs) \div 1000

\* Whether the poll that begins is the last one.
ShouldStop(count) == CheckStopPolling \/ count >= MaxPolls

BeginPollUncounted ==  \* mutant: poll_count stays
  /\ poll' = "asked"
  /\ should_stop' = ShouldStop(poll_count)
  /\ UNCHANGED <<poll_count, fetched>>

\* The top of the polling loop.
BeginPoll ==
  /\ poll' = "asked"
  /\ poll_count' = poll_count + 1
  /\ should_stop' = ShouldStop(poll_count + 1)
  /\ UNCHANGED fetched

\* The remote description is set and the polling task spawned; either
\* description may also be refused.
DescriptionsSet(ok) ==
  /\ setup = "local"
  /\ IF ok
     THEN setup' = "established" /\ client_remote' = answer /\ BeginPoll
     ELSE setup' = "failed" /\ UNCHANGED <<client_remote, pollVars>>
  /\ UNCHANGED <<ip_version, handler, answer, in_time, listed, gatherVars, browserVars,
                 server_remote, upVars, channelVars>>

\* The session leaves the client table (ClientRegistry).
SessionRemoved ==
  /\ listed
  /\ listed' = FALSE
  /\ UNCHANGED <<ip_version, setup, handler, answer, in_time, gatherVars, browserVars,
                 remoteVars, pollVars, upVars, channelVars>>

-----------------------------------------------------------------------------
(* The client's candidates *)

\* onicecandidate: a request for each candidate that passes the filter.
Find(c) ==
  /\ setup \in {"local", "established"}
  /\ c \in ClientHosts \ found
  /\ found' = found \cup {c}
  /\ posting' = posting \cup Filtered({c})
  /\ UNCHANGED <<gathering_done, offerVars, gatherVars, remoteVars, pollVars, upVars, channelVars>>

GatheringDone ==
  /\ setup \in {"local", "established"}
  /\ found = ClientHosts /\ ~gathering_done
  /\ gathering_done' = TRUE
  /\ UNCHANGED <<found, posting, offerVars, gatherVars, remoteVars, pollVars, upVars, channelVars>>

\* ice_candidate on the server, which filters again; or the request is lost.
PostEnds(c, arrives) ==
  /\ c \in posting
  /\ posting' = posting \ {c}
  /\ server_remote' = IF arrives /\ listed THEN server_remote \cup Filtered({c}) ELSE server_remote
  /\ UNCHANGED <<found, gathering_done, offerVars, gatherVars, client_remote, pollVars, upVars,
                 channelVars>>

-----------------------------------------------------------------------------
(* Polling *)

\* get_ice_candidates on the server empties the queue, before the response is
\* on its way.
PollServed ==
  /\ poll = "asked"
  /\ poll' = "served"
  /\ IF listed THEN fetched' = ice_candidates /\ ice_candidates' = {}
     ELSE UNCHANGED <<fetched, ice_candidates>>
  /\ UNCHANGED <<gathered, storing, poll_count, should_stop, offerVars, browserVars, remoteVars,
                 upVars, channelVars>>

\* A stored candidate is the JSON of an RTCIceCandidate, with these fields.
JsonFields == {"stats_id", "foundation", "priority", "address", "protocol", "port", "typ",
               "component", "related_address", "related_port", "tcp_type"}

\* The client looks for the candidate line of each element.
FromPoll(cs) == {c \in Filtered(cs) : "candidate" \in JsonFields}

\* The response arrives, or the request failed on either way.
PollEnds(arrives) ==
  /\ poll = "served" \/ (poll = "asked" /\ ~arrives)
  /\ client_remote' = IF arrives THEN client_remote \cup FromPoll(fetched) ELSE client_remote
  /\ poll' = IF should_stop THEN "over" ELSE "sleep"
  /\ fetched' = {}
  /\ UNCHANGED <<poll_count, should_stop, server_remote, offerVars, gatherVars, browserVars,
                 upVars, channelVars>>

PollAgain ==
  /\ poll = "sleep"
  /\ BeginPoll
  /\ UNCHANGED <<offerVars, gatherVars, browserVars, remoteVars, upVars, channelVars>>

-----------------------------------------------------------------------------
(* The connection comes up *)

\* Either state listener of setup_address_update_callback.
Listener ==
  /\ addresses_updated' = TRUE
  /\ reading' = IF addresses_updated THEN reading ELSE reading + 1
  /\ UNCHANGED shown

\* ICE needs a candidate of the server to check (external).
IceConnects ==
  /\ setup = "established" /\ client_remote # {} /\ ice_state = "new"
  /\ ice_state' = "connected"
  /\ Listener
  /\ UNCHANGED <<connection_state, offerVars, gatherVars, browserVars, remoteVars, pollVars,
                 channelVars>>

\* Then DTLS comes up (external).
ConnectionConnects ==
  /\ ice_state = "connected" /\ connection_state = "new"
  /\ connection_state' = "connected"
  /\ Listener
  /\ UNCHANGED <<ice_state, offerVars, gatherVars, browserVars, remoteVars, pollVars, channelVars>>

\* update_peer_connection_addresses_from_stats, once the statistics are there:
\* they may have no pair that succeeded, or the call may fail.
StatsRead(pair) ==
  /\ reading > 0
  /\ reading' = reading - 1
  /\ shown' = IF pair THEN shown + 1 ELSE shown
  /\ UNCHANGED <<addresses_updated, ice_state, connection_state, offerVars, gatherVars, browserVars, remoteVars,
                 pollVars, channelVars>>

-----------------------------------------------------------------------------
(* The server's channels *)

AllReady(cs) == cs = Labels

\* on_data_channel, which the accept loop awaits before it opens the channel:
\* a send on a channel that is not open yet fails, and nobody tries again.
ChannelAccepted(l) ==
  /\ connection_state = "connected" /\ opening = "none"
  /\ l \in Labels \ chans
  /\ chans' = chans \cup {l}
  /\ ready_sent' = IF AllReady(chans') /\ "control" \in open THEN ready_sent + 1 ELSE ready_sent
  /\ opening' = l
  /\ UNCHANGED <<open, offerVars, gatherVars, browserVars, remoteVars, pollVars, upVars>>

\* handle_open of the accept loop (external).
ChannelOpened ==
  /\ opening # "none"
  /\ open' = open \cup {opening}
  /\ opening' = "none"
  /\ UNCHANGED <<chans, ready_sent, offerVars, gatherVars, browserVars, remoteVars, pollVars,
                 upVars>>

-----------------------------------------------------------------------------
\* What the server and the browser go on with by themselves.
PeerStep ==
  \/ \E complete \in BOOLEAN : Answer(complete)
  \/ AnswerArrives
  \/ \E ok \in BOOLEAN : DescriptionsSet(ok)
  \/ PollServed \/ PollAgain
  \/ \E arrives \in BOOLEAN : PollEnds(arrives)
  \/ \E pair \in BOOLEAN : StatsRead(pair)
  \/ ChannelOpened

PeerNext ==
  \/ PeerStep
  \/ SendOffer \/ OfferFails \/ SessionRemoved \/ GatheringDone
  \/ \E h \in ServerHosts : Gather(h) \/ Store(h)
  \/ \E h \in ClientHosts : Find(h) \/ \E arrives \in BOOLEAN : PostEnds(h, arrives)
  \/ IceConnects \/ ConnectionConnects
  \/ \E l \in Labels : ChannelAccepted(l)

PeerSpec == PeerInit /\ [][PeerNext]_peerVars

-----------------------------------------------------------------------------
(* Properties *)

\* The candidates either peer is given are addresses of the version that was
\* asked for, never a name, whichever way they came; and once the client has
\* the answer it knows every such address of the server, whatever requests
\* and polls are lost, unless the gathering outlasted its ten seconds
\* (handle_offer, filter_sdp_candidates, onicecandidate, ice_candidate).
CandidatesKnown ==
  /\ \A c \in server_remote \cup client_remote : KindOf[c] = ip_version
  /\ setup = "established" /\ in_time =>
       client_remote = {h \in ServerHosts : KindOf[h] = ip_version}

\* The page is given the addresses at most once although two listeners hear of
\* the connection; and the server announces itself at most once, with all four
\* channels in place, and does so unless the control channel was the last one
\* (webrtc.rs, setup_address_update_callback; setup_data_channel_handlers).
AnnouncedOnce ==
  /\ shown <= 1 /\ ready_sent <= 1
  /\ ready_sent = 1 => chans = Labels
  /\ chans = Labels /\ opening \in Labels \ {"control"} => ready_sent = 1

\* The client asks for candidates as often as its limit says, or once if the
\* limit is lower (the polling task of webrtc.rs).
PollsBounded == poll_count <= MaxPolls \/ poll_count <= 1

\* The set-up ends: the offer fails, or the polling stops after its last
\* question, connected or not; and what is announced is announced once
\* (webrtc.rs, setup_data_channel_handlers).
SetUpEnds ==
  /\ (setup = "offered") ~> (setup = "failed" \/ poll = "over")
  /\ []AnnouncedOnce
  /\ []PollsBounded
=============================================================================
